---- MODULE Spec2Model ----
(***************************************************************************)
(* A model of RskTransactionHelper (src/rsk-transaction-helper.js, the     *)
(* version with per-operation retry loops, lines 1-498).                   *)
(*                                                                         *)
(* Every helper operation is an async function; an invocation is a stack   *)
(* of frames, one per helper function that has been entered and has not    *)
(* yet settled.  A frame suspends at remote calls (pc "await"), at the     *)
(* retry delay (pc "wait") and while a helper function it called is        *)
(* running (pc "called").  The node is the environment: it answers every   *)
(* remote call with a value, with the connection error or with another     *)
(* error.  `log` records, per invocation, every remote request, every      *)
(* answer, every delay, every helper function entered, every retry loop    *)
(* that ended without a result and every settlement of a helper function.  *)
(***************************************************************************)
EXTENDS Integers, Sequences, FiniteSets, TLC

(***************************************************************************)
(* Bounds of the exploration.                                              *)
(***************************************************************************)
MaxAttemptsBound == 3
MaxBlocks == 2
MaxMineSends == 8
MaxLateEvents == 1
MaxOtherTransactions == 1
MaxSpends == 1
MaxGetClientCalls == 2

(***************************************************************************)
(* Program constants.                                                      *)
(***************************************************************************)
TRANSFER_GAS_COST == 21000
CONNECTION_ERROR_MESSAGE == "CONNECTION ERROR: Couldn't connect to node"
DEFAULT_RSK_CONFIG == [hostUrl |-> "http://localhost:4444", maxAttempts |-> 1, attemptDelay |-> 1000]
durationInMilliseconds == 1000 * 60
DefaultEstimatedGasPercentIncrement == 10

(***************************************************************************)
(* Callers, and the values the node and the callers may supply.            *)
(***************************************************************************)
Procs == {1, 2}
Balances == {1, 1234, 21000, 21001, 1021000000}
GasPrices == {0, 1000}
GasEstimates == {1234, 21000}
Values == {0, 1, 1000000000}
InitialTransactionCount == 5
Timestamps == {500, 600}
NetworkId == 33
MockResponseId == 100

(***************************************************************************)
(* JavaScript values.                                                      *)
(***************************************************************************)
Undefined == [t |-> "undefined"]
Null == [t |-> "null"]
Num(n) == [t |-> "number", n |-> n]
BN(n) == [t |-> "BN", n |-> n]
Str(s) == [t |-> "string", s |-> s]

\* web3.utils.toBN of a number (or of a BN)
toBN(x) == BN(x.n)

\* BN.prototype.toString(): the decimal digits
toString(b) == ToString(b.n)

\* new Web3(host): the client handle, the first instance that is created
Web3(host) == [t |-> "Web3", host |-> host, instance |-> 1]

\* a default parameter value: `param = d` in a function signature
DefaultParam(x, d) == IF x = Undefined THEN d ELSE x

(***************************************************************************)
(* Errors.  A message is a sequence of string pieces; `includes` looks for *)
(* a piece.                                                                *)
(***************************************************************************)
Error(message) == [name |-> "Error", message |-> message]
RskTransactionHelperException(message, err) ==
    [name |-> "RskTransactionHelperError", message |-> <<message>>, internal |-> err]

ConnectionError == Error(<<CONNECTION_ERROR_MESSAGE, " http://localhost:4444.">>)
NonConnectionError == Error(<<"A different error">>)
NodeErrors == {ConnectionError, NonConnectionError}

Includes(message, piece) == \E k \in 1..Len(message) : message[k] = piece

\* (variant: every error is taken for a connection error)
IsConnectionErrorAlways(error) == Len(error.message) >= 0

\* error.message.includes(CONNECTION_ERROR_MESSAGE)
IsConnectionError(error) == Includes(error.message, CONNECTION_ERROR_MESSAGE)

InsufficientBalanceError(requiredBalance, balance) ==
    Error(<<"Insufficient balance. Required: ", toString(requiredBalance),
            ", current balance: ", toString(balance)>>)

\* the error of mine(amountOfBlocks < 1); the message quotes amountOfBlocks in backquotes
InvalidAmountOfBlocksError ==
    Error(<<"Invalid ", "amountOfBlocks", " provided. Needs to be greater than 0 if provided.">>)

(***************************************************************************)
(* The retry loop shared by every operation.                               *)
(***************************************************************************)
\* (variant: the loop runs once more than configured)
LoopCondOffByOne(attempts, maxAttempts) == attempts <= maxAttempts

\* while (attempts < this.rskConfig.maxAttempts)
LoopCond(attempts, maxAttempts) == attempts < maxAttempts

SingleCallOps == {"getBalance", "getGasPrice", "getTxReceipt", "getBlockNumber",
                  "newAccountWithSeed", "updateBridge"}
LoopOps == SingleCallOps \cup {"checkBalanceForCall", "transferFundsCheckingBalance",
                               "signAndSendTransactionCheckingBalance",
                               "signAndSendTransaction", "transferFunds"}

\* (variant: a loop that gives up fails with the connection error)
OnExhaustionConnectionError(op, args, maxAttempts) ==
    IF op \in {"getBalance", "getGasPrice", "checkBalanceForCall"} /\ maxAttempts > 0
    THEN [k |-> "throw", err |-> Error(<<CONNECTION_ERROR_MESSAGE, " http://localhost:4444.">>)]
    ELSE [k |-> "return", val |-> Undefined]

\* what follows the loop when it ends without a return
OnExhaustion(op, args, maxAttempts) ==
    CASE op = "getBalance" ->
           [k |-> "throw", err |-> Error(<<"Error getting balance for address ", args.address,
                                           " after attempting ", ToString(maxAttempts), " times}">>)]
      [] op = "getGasPrice" ->
           [k |-> "throw", err |-> Error(<<"Error getting gas price after retrying ",
                                           ToString(maxAttempts), " times}">>)]
      [] op = "checkBalanceForCall" ->
           [k |-> "throw", err |-> Error(<<"Error checking balance for call after retrying ",
                                           ToString(maxAttempts), " times}">>)]
      [] OTHER -> [k |-> "return", val |-> Undefined]

\* the error a frame rejects with when its catch block rethrows
ThrowOf(op, error) ==
    CASE op = "signAndSendTransaction" ->
           RskTransactionHelperException("Error on signAndSendTransaction",
               RskTransactionHelperException("Error on signAndSendTransaction", error))
      [] op = "transferFunds" -> RskTransactionHelperException("Error on transferFunds", error)
      [] OTHER -> error

\* (variant: the catch block never retries)
CatchNeverWaits(op, error) ==
    IF Len(error.message) < 0 THEN [k |-> "wait"] ELSE [k |-> "throw", err |-> ThrowOf(op, error)]

\* (variant: the catch block retries after every error)
CatchAlwaysWaits(op, error) ==
    IF Len(error.message) >= 0 THEN [k |-> "wait"] ELSE [k |-> "throw", err |-> ThrowOf(op, error)]

\* the catch block of a retry loop
Catch(op, error) ==
    IF IsConnectionError(error)
    THEN [k |-> "wait"]
    ELSE [k |-> "throw", err |-> ThrowOf(op, error)]

(***************************************************************************)
(* The body of each retry loop: the suspension points of its try block.    *)
(*   remote     an awaited call of the client                              *)
(*   sub        an awaited call of another helper operation                *)
(*   tail       a helper operation whose promise is returned unawaited     *)
(*   tailRemote a client promise that is returned unawaited                *)
(***************************************************************************)
Remote(call) == [k |-> "remote", call |-> call]
Sub(op) == [k |-> "sub", call |-> op]
TailCall(op) == [k |-> "tail", call |-> op]
TailRemote(call) == [k |-> "tailRemote", call |-> call]

Body(op) ==
    CASE op = "getBalance" -> <<Remote("eth.getBalance")>>
      [] op = "getGasPrice" -> <<Remote("eth.getGasPrice")>>
      [] op = "getTxReceipt" -> <<Remote("eth.getTransactionReceipt")>>
      [] op = "getBlockNumber" -> <<Remote("eth.getBlockNumber")>>
      [] op = "newAccountWithSeed" -> <<Remote("personal_newAccountWithSeed")>>
      [] op = "updateBridge" -> <<Remote("fed_updateBridge")>>
      [] op = "checkBalanceForCall" ->
           <<Remote("call.estimateGas"), Sub("getGasPrice"), Sub("getBalance")>>
      [] op = "transferFundsCheckingBalance" ->
           <<Sub("getBalance"), Sub("getGasPrice"), TailCall("transferFunds")>>
      [] op = "signAndSendTransactionCheckingBalance" ->
           <<Sub("checkBalanceForCall"), TailCall("signAndSendTransaction")>>
      [] op = "signAndSendTransaction" ->
           <<Remote("eth.getTransactionCount"), Remote("eth.net.getId"),
             Remote("eth.sendSignedTransaction")>>
      [] op = "transferFunds" ->
           <<Remote("eth.getTransactionCount"), Remote("eth.net.getId"),
             TailRemote("eth.sendSignedTransaction")>>

(***************************************************************************)
(* Pure computations of the operations.                                    *)
(***************************************************************************)
\* (variant: the gas price of the network is returned as it is)
NormalizeGasPriceIdentity(gasPrice) == gasPrice

\* gasPrice.isZero() ? toBN('1') : gasPrice
NormalizeGasPrice(gasPrice) == IF gasPrice.n = 0 THEN BN(1) ELSE gasPrice

\* (variant: the gas price is added without the gas cost of a transfer)
TransferRequiredBalanceNoGasCost(value, gasPrice) == BN(value.n + gasPrice.n)

\* value.add(gasLimit.mul(gasPrice)) of transferFundsCheckingBalance
TransferRequiredBalance(value, gasPrice) == BN(value.n + TRANSFER_GAS_COST * gasPrice.n)

\* (variant: the balance is not compared)
TransferIsNeverRefused(requiredBalance, balance) == FALSE

\* (variant: requiredBalance.gte(balance))
TransferIsRefusedAtEquality(requiredBalance, balance) == requiredBalance.n >= balance.n

\* requiredBalance.gt(balance): the transfer is refused
TransferIsRefused(requiredBalance, balance) == requiredBalance.n > balance.n

\* estimatedGas.mul(gasPrice) of checkBalanceForCall
CallRequiredBalance(estimatedGas, gasPrice) == BN(estimatedGas.n * gasPrice.n)

\* (variant: callerBalance.gte(requiredBalance))
IsEnoughAtEquality(callerBalance, requiredBalance) == callerBalance.n >= requiredBalance.n

\* callerBalance.gt(requiredBalance)
IsEnough(callerBalance, requiredBalance) == callerBalance.n > requiredBalance.n

BalanceForCallResponse(estimatedGas, gasPrice, callerBalance) ==
    [t |-> "BalanceForCallResponse",
     estimatedGas |-> estimatedGas,
     requiredBalance |-> CallRequiredBalance(estimatedGas, gasPrice),
     callerBalance |-> callerBalance,
     isEnough |-> IsEnough(callerBalance, CallRequiredBalance(estimatedGas, gasPrice)),
     gasPrice |-> gasPrice]

\* (variant: the division comes before the multiplication)
GasLimitDividedFirst(estimatedGas, estimatedGasPercentIncrement) ==
    BN((estimatedGas.n \div 100) * (100 + estimatedGasPercentIncrement.n))

\* estimatedGas.mul(toBN(100 + estimatedGasPercentIncrement)).div(toBN('100'))
GasLimitWithIncrement(estimatedGas, estimatedGasPercentIncrement) ==
    BN((estimatedGas.n * (100 + estimatedGasPercentIncrement.n)) \div 100)

\* call.encodeABI()
EncodeABI(call) == [t |-> "abi", of |-> call]

\* (variant: toBN(value || '0x01'))
ValueOrOne(value) == IF value = Undefined \/ value = Num(0) THEN BN(1) ELSE toBN(value)

\* toBN(value || '0x00')
ValueOrZero(value) == IF value = Undefined \/ value = Num(0) THEN BN(0) ELSE toBN(value)

\* new Tx(rawTx); tx.sign(privateKey); '0x' + tx.serialize().toString('hex')
SerializedTx(rawTx, privateKey) == [t |-> "signedTx", rawTx |-> rawTx, key |-> privateKey]

\* the transaction hash the node announces for a signed transaction
TxHash(serializedTx) == [t |-> "txHash", of |-> serializedTx]

\* (variant: the nonce is the transaction count known at the start)
RawTxOfSignAndSendStaleNonce(args, nonce, networkId) ==
    [nonce |-> InitialTransactionCount + 0 * nonce.n,
     gasPrice |-> toBN(args.gasPrice), gasLimit |-> toBN(args.gasLimit),
     to |-> args.destinationAddress, value |-> ValueOrZero(args.value),
     data |-> args.callData, v |-> networkId.n]

RawTxOfSignAndSend(args, nonce, networkId) ==
    [nonce |-> nonce.n, gasPrice |-> toBN(args.gasPrice), gasLimit |-> toBN(args.gasLimit),
     to |-> args.destinationAddress, value |-> ValueOrZero(args.value),
     data |-> args.callData, v |-> networkId.n]

\* (variant: the nonce is one more than the count the node reported)
RawTxOfTransferFundsNextNonce(args, nonce, networkId) ==
    [nonce |-> nonce.n + 1, gasPrice |-> toBN(args.gasPrice), gasLimit |-> BN(TRANSFER_GAS_COST),
     to |-> args.destinationAddress, value |-> ValueOrZero(args.value),
     data |-> Undefined, v |-> networkId.n]

RawTxOfTransferFunds(args, nonce, networkId) ==
    [nonce |-> nonce.n, gasPrice |-> toBN(args.gasPrice), gasLimit |-> BN(TRANSFER_GAS_COST),
     to |-> args.destinationAddress, value |-> ValueOrZero(args.value),
     data |-> Undefined, v |-> networkId.n]

(***************************************************************************)
(* State.                                                                  *)
(***************************************************************************)
VARIABLES
    rskConfig,   \* this.rskConfig, fixed by the constructor
    web3Client,  \* this.web3Client, created by the constructor
    node,        \* the node: the sender's pending-state transaction count
    callers,     \* the callers that use the helper
    stack,       \* per caller: the frames of the running invocation
    outcome,     \* per caller: the promise the caller holds
    log          \* per caller: requests, answers, delays and helper calls so far

vars == <<rskConfig, web3Client, node, callers, stack, outcome, log>>

NoRet == [k |-> "none"]

Top(p) == stack[p][Len(stack[p])]

NoRequest == <<>>

NewFrame(op, args) ==
    [op |-> op, args |-> args, pc |-> "loop", attempts |-> 0, step |-> 0, loc |-> <<>>,
     call |-> "", req |-> NoRequest]

\* the frame of mine() once its argument check has passed
NewMineFrame(amountOfBlocks, now) ==
    [op |-> "mine", args |-> [amountOfBlocks |-> amountOfBlocks], pc |-> "for",
     attempts |-> 0, step |-> 0,
     loc |-> [i |-> 0, id |-> now, increaseTimeResult |-> Undefined],
     call |-> "", req |-> NoRequest]

Event(ev, op, call, data) == [ev |-> ev, op |-> op, call |-> call, data |-> data]

CurrentStep(f) == Body(f.op)[f.step]

(***************************************************************************)
(* The invocations a caller may make.                                      *)
(***************************************************************************)
Sender == "0x0671"
Recipient == "0xcfc8"
PrivateKey == "b7dd"
\* the transaction hashes and the seeds a caller may pass
TxHashes == {"0x49ea", "0x7f3b"}
Seeds == {"seed", "another seed"}

ContractCall == [t |-> "ContractSendMethod", method |-> "myMethod"]

SendArgs == [senderAddress |-> Sender, senderPrivateKey |-> PrivateKey,
             destinationAddress |-> Recipient]

(***************************************************************************)
(* Requests and the node's answers.                                        *)
(***************************************************************************)
\* (variant: the balance of the sender is asked for, whatever the argument)
RequestOfOwnBalance(f, now) ==
    LET call == CurrentStep(f).call IN
    CASE call = "eth.getBalance" -> [address |-> Sender]
      [] call = "eth.getTransactionReceipt" -> [txHash |-> f.args.txHash]
      [] OTHER -> <<>>

\* the request a frame issues at its current step
Request(f, now) ==
    LET call == CurrentStep(f).call IN
    CASE call = "eth.getBalance" -> [address |-> f.args.address]
      [] call = "eth.getTransactionReceipt" -> [txHash |-> f.args.txHash]
      [] call = "eth.getTransactionCount" -> [address |-> f.args.senderAddress, block |-> "pending"]
      [] call = "eth.sendSignedTransaction" -> [serializedTx |-> f.loc.serializedTx]
      [] call = "personal_newAccountWithSeed" ->
           [jsonrpc |-> "2.0", method |-> call, params |-> <<f.args.seed>>, id |-> now]
      [] call = "fed_updateBridge" ->
           [jsonrpc |-> "2.0", method |-> call, params |-> <<>>, id |-> now]
      [] OTHER -> <<>>

\* evmIncreaseTime()
EvmIncreaseTimeRequest(id) ==
    [jsonrpc |-> "2.0", method |-> "evm_increaseTime", params |-> <<durationInMilliseconds>>,
     id |-> id]

\* evmMine(increaseTimeResult)
EvmMineRequest(increaseTimeResult) ==
    [jsonrpc |-> "2.0", method |-> "evm_mine", id |-> increaseTimeResult.id + 1]

RpcResponses(req, result) ==
    {[jsonrpc |-> "2.0", id |-> rid, result |-> result] : rid \in {req.id, MockResponseId}}

\* the values the node may answer a request with
NodeValues(call, req) ==
    CASE call = "eth.getBalance" ->
           IF "balance" \in DOMAIN node THEN {Num(node.balance)} ELSE {Num(b) : b \in Balances}
      [] call = "eth.getGasPrice" -> {Num(g) : g \in GasPrices}
      [] call = "call.estimateGas" -> {Num(e) : e \in GasEstimates}
      [] call = "eth.getTransactionCount" -> {Num(node.transactionCount)}
      [] call = "eth.net.getId" -> {Num(NetworkId)}
      [] call = "eth.sendSignedTransaction" -> {TxHash(req.serializedTx)}
      [] call = "eth.getTransactionReceipt" -> {[t |-> "receipt", transactionHash |-> req.txHash]}
      [] call = "eth.getBlockNumber" -> {Num(10)}
      [] call = "personal_newAccountWithSeed" -> RpcResponses(req, Str("0xcd2a"))
      [] call = "fed_updateBridge" -> RpcResponses(req, Null)
      [] call = "evm_increaseTime" -> RpcResponses(req, Str("0x1"))
      [] call = "evm_mine" -> RpcResponses(req, Null)

(***************************************************************************)
(* What a frame does when a step of its try block has produced a value.    *)
(* The result is a disposition: go on to the next step with new locals,    *)
(* return, throw, or (from the catch block) wait for the retry delay.      *)
(***************************************************************************)
\* (variant: resolve(response))
RpcResponse(response) == response

\* resolve(response.result) in the callback of currentProvider.send
RpcResult(response) == response.result

AfterStep(f, v) ==
    CASE f.op = "getBalance" -> [k |-> "return", val |-> toBN(v)]
      [] f.op = "getGasPrice" -> [k |-> "return", val |-> NormalizeGasPrice(toBN(v))]
      [] f.op \in {"getTxReceipt", "getBlockNumber"} -> [k |-> "return", val |-> v]
      [] f.op \in {"newAccountWithSeed", "updateBridge"} -> [k |-> "return", val |-> RpcResult(v)]
      [] f.op = "checkBalanceForCall" /\ f.step = 1 ->
           [k |-> "next", loc |-> [estimatedGas |-> toBN(v)]]
      [] f.op = "checkBalanceForCall" /\ f.step = 2 ->
           [k |-> "next", loc |-> [estimatedGas |-> f.loc.estimatedGas, gasPrice |-> v]]
      [] f.op = "checkBalanceForCall" /\ f.step = 3 ->
           [k |-> "return",
            val |-> BalanceForCallResponse(f.loc.estimatedGas, f.loc.gasPrice, v)]
      [] f.op = "transferFundsCheckingBalance" /\ f.step = 1 ->
           [k |-> "next", loc |-> [balance |-> v]]
      [] f.op = "transferFundsCheckingBalance" /\ f.step = 2 ->
           LET value == toBN(f.args.value)
               requiredBalance == TransferRequiredBalance(value, v)
           IN  IF TransferIsRefused(requiredBalance, f.loc.balance)
               THEN Catch(f.op, InsufficientBalanceError(requiredBalance, f.loc.balance))
               ELSE [k |-> "next",
                     loc |-> [balance |-> f.loc.balance, gasPrice |-> v, value |-> value]]
      [] f.op = "signAndSendTransactionCheckingBalance" /\ f.step = 1 ->
           IF ~v.isEnough
           THEN Catch(f.op, InsufficientBalanceError(v.requiredBalance, v.callerBalance))
           ELSE [k |-> "next",
                 loc |-> [checkBalance |-> v,
                          gasLimit |-> GasLimitWithIncrement(v.estimatedGas,
                                          DefaultParam(f.args.estimatedGasPercentIncrement,
                                                       Num(DefaultEstimatedGasPercentIncrement)))]]
      [] f.op = "signAndSendTransaction" /\ f.step = 1 ->
           [k |-> "next", loc |-> [nonce |-> v]]
      [] f.op = "signAndSendTransaction" /\ f.step = 2 ->
           [k |-> "next",
            loc |-> [serializedTx |-> SerializedTx(RawTxOfSignAndSend(f.args, f.loc.nonce, v),
                                                   f.args.senderPrivateKey)]]
      [] f.op = "signAndSendTransaction" /\ f.step = 3 -> [k |-> "return", val |-> v]
      [] f.op = "transferFunds" /\ f.step = 1 ->
           [k |-> "next", loc |-> [nonce |-> v]]
      [] f.op = "transferFunds" /\ f.step = 2 ->
           [k |-> "next",
            loc |-> [serializedTx |-> SerializedTx(RawTxOfTransferFunds(f.args, f.loc.nonce, v),
                                                   f.args.senderPrivateKey)]]

\* the arguments of the helper operation a frame calls at its current step
SubArgs(f) ==
    LET op == CurrentStep(f).call IN
    CASE f.op = "checkBalanceForCall" /\ op = "getBalance" -> [address |-> f.args.callerAddress]
      [] f.op = "transferFundsCheckingBalance" /\ op = "getBalance" ->
           [address |-> f.args.senderAddress]
      [] f.op = "transferFundsCheckingBalance" /\ op = "transferFunds" ->
           [senderAddress |-> f.args.senderAddress, senderPrivateKey |-> f.args.senderPrivateKey,
            destinationAddress |-> f.args.destinationAddress,
            value |-> f.loc.value, gasPrice |-> f.loc.gasPrice]
      [] f.op = "signAndSendTransactionCheckingBalance" /\ op = "checkBalanceForCall" ->
           [call |-> f.args.call, callerAddress |-> f.args.senderAddress]
      [] f.op = "signAndSendTransactionCheckingBalance" /\ op = "signAndSendTransaction" ->
           [senderAddress |-> f.args.senderAddress, senderPrivateKey |-> f.args.senderPrivateKey,
            gasPrice |-> f.loc.checkBalance.gasPrice, gasLimit |-> f.loc.gasLimit,
            destinationAddress |-> f.args.destinationAddress,
            callData |-> EncodeABI(f.args.call), value |-> Undefined]
      [] OTHER -> <<>>

\* a disposition as the frame it leaves on the stack, when it leaves one
OfFrame(f, d) ==
    CASE d.k = "next" ->
           [k |-> "frame", f |-> [f EXCEPT !.pc = "step", !.step = @ + 1, !.loc = d.loc]]
      [] d.k = "wait" -> [k |-> "frame", f |-> [f EXCEPT !.pc = "wait"]]
      [] OTHER -> d

(***************************************************************************)
(* mine: the callbacks of evmIncreaseTime and evmMine, and the catch       *)
(* blocks of its two retry loops.                                          *)
(***************************************************************************)
\* (variant: evm_mine is not sent after evm_increaseTime)
MineOnOkSkipsMine(f, result) ==
    IF f.call = "evm_increaseTime"
    THEN [k |-> "frame", f |-> [f EXCEPT !.pc = "for", !.loc.i = @ + 1]]
    ELSE [k |-> "frame",
          f |-> [f EXCEPT !.pc = "for", !.loc.id = result.id + 1, !.loc.i = @ + 1]]

MineOnOk(f, result) ==
    IF f.call = "evm_increaseTime"
    THEN [k |-> "frame",
          f |-> [f EXCEPT !.pc = "mineLoop", !.attempts = 0,
                          !.loc.increaseTimeResult = result]]
    ELSE [k |-> "frame",
          f |-> [f EXCEPT !.pc = "for", !.loc.id = result.id + 1, !.loc.i = @ + 1]]

\* (variant: every error of evm_increaseTime and evm_mine is retried)
MineOnErrorRetriesAll(f, error) ==
    IF f.call = "evm_increaseTime" /\ Len(error.message) >= 0
    THEN [k |-> "frame", f |-> [f EXCEPT !.pc = "wait"]]
    ELSE [k |-> "frame", f |-> [f EXCEPT !.pc = "wait", !.loc.i = @ - 1]]

MineOnError(f, error) ==
    IF ~IsConnectionError(error)
    THEN [k |-> "throw", err |-> error]
    ELSE IF f.call = "evm_increaseTime"
         THEN [k |-> "frame", f |-> [f EXCEPT !.pc = "wait"]]
         ELSE [k |-> "frame", f |-> [f EXCEPT !.pc = "wait", !.loc.i = @ - 1]]

\* (variant: the transaction hash does not end the loop of
\* signAndSendTransaction)
OnOkHashGoesOn(f, v) ==
    IF f.op = "mine" THEN MineOnOk(f, v)
    ELSE IF CurrentStep(f).k = "tailRemote" THEN [k |-> "return", val |-> v]
    ELSE IF f.call = "eth.sendSignedTransaction" THEN OfFrame(f, [k |-> "wait"])
    ELSE OfFrame(f, AfterStep(f, v))

\* (variant: the value of a successful attempt is not returned and the loop
\* goes on)
OnOkLoopGoesOn(f, v) ==
    IF f.op = "mine" THEN MineOnOk(f, v)
    ELSE IF CurrentStep(f).k = "tailRemote" THEN [k |-> "return", val |-> v]
    ELSE OfFrame(f, [k |-> "wait"])

\* the settlement of an awaited request that the node answered with a value
OnOk(f, v) ==
    IF f.op = "mine" THEN MineOnOk(f, v)
    ELSE IF CurrentStep(f).k = "tailRemote" THEN [k |-> "return", val |-> v]
    ELSE OfFrame(f, AfterStep(f, v))

\* the settlement of an awaited request that failed
OnError(f, error) ==
    IF f.op = "mine" THEN MineOnError(f, error)
    ELSE IF CurrentStep(f).k = "tailRemote" THEN [k |-> "throw", err |-> error]
    ELSE OfFrame(f, Catch(f.op, error))

\* a helper operation called by frame f has settled with r
OnSettled(f, r) ==
    IF CurrentStep(f).k = "tail" THEN r
    ELSE IF r.k = "return" THEN OfFrame(f, AfterStep(f, r.val))
    ELSE OfFrame(f, Catch(f.op, r.err))

\* (variant: a failed attempt counts twice)
AfterWaitCountsTwice(f) ==
    [f EXCEPT !.attempts = @ + 2,
              !.pc = IF f.op # "mine" THEN "loop"
                     ELSE IF f.call = "evm_increaseTime" THEN "incLoop" ELSE "mineLoop"]

\* after `await wait(attemptDelay)`: the attempt counter is incremented
AfterWait(f) ==
    [f EXCEPT !.attempts = @ + 1,
              !.pc = IF f.op # "mine" THEN "loop"
                     ELSE IF f.call = "evm_increaseTime" THEN "incLoop" ELSE "mineLoop"]

Settled(d) ==
    IF d.k = "return" THEN [state |-> "resolved", val |-> d.val]
    ELSE [state |-> "rejected", err |-> d.err]

Sends(l) == {k \in 1..Len(l) : l[k].ev = "send"}

(***************************************************************************)
(* An invocation runs without interruption from one suspension point to    *)
(* the next (JavaScript runs a callback to completion).  A configuration   *)
(* is the stack, the settlement `ret` that a finished frame hands to the   *)
(* frame that called it, the caller's promise and the log.                 *)
(***************************************************************************)
Apply(c, d, evs) ==
    LET f == c.stack[Len(c.stack)]
        rest == SubSeq(c.stack, 1, Len(c.stack) - 1)
        lg == c.log \o evs
        settled == lg \o <<Event(d.k, f.op, "settle", IF d.k = "return" THEN d.val ELSE d.err)>>
    IN  CASE d.k = "frame" -> [c EXCEPT !.stack = rest \o <<d.f>>, !.ret = NoRet, !.log = lg]
          [] d.k = "push" ->
               [c EXCEPT !.stack = rest \o <<d.f, d.callee>>, !.ret = NoRet, !.log = lg]
          [] d.k \in {"return", "throw"} ->
               IF rest = <<>>
               THEN [stack |-> <<>>, ret |-> NoRet, outcome |-> Settled(d), log |-> settled]
               ELSE [c EXCEPT !.stack = rest, !.ret = d, !.log = settled]

\* the head of a retry loop: the try block is entered, or the code after the
\* loop runs
LoopStep(c, f, maxAttempts) ==
    IF LoopCond(f.attempts, maxAttempts)
    THEN Apply(c, [k |-> "frame", f |-> [f EXCEPT !.pc = "step", !.step = 1, !.loc = <<>>]], <<>>)
    ELSE Apply(c, OnExhaustion(f.op, f.args, maxAttempts),
               <<Event("exhausted", f.op, "loop", Num(f.attempts))>>)

\* a call of the client is issued
SendRemote(c, f, now) ==
    LET call == CurrentStep(f).call
        req == Request(f, now)
    IN  Apply(c, [k |-> "frame", f |-> [f EXCEPT !.pc = "await", !.call = call, !.req = req]],
              <<Event("send", f.op, call, req)>>)

\* another operation of the helper is called
CallSub(c, f) ==
    LET op == CurrentStep(f).call IN
    Apply(c, [k |-> "push", f |-> [f EXCEPT !.pc = "called"],
              callee |-> NewFrame(op, SubArgs(f))],
          <<Event("call", f.op, op, SubArgs(f))>>)

\* (variant: i <= amountOfBlocks)
ForCondOffByOne(i, amountOfBlocks) == i <= amountOfBlocks

\* i < amountOfBlocks
ForCond(i, amountOfBlocks) == i < amountOfBlocks

\* mine: for (let i = 0; i < amountOfBlocks; i++)
MineFor(c, f) ==
    IF ForCond(f.loc.i, f.args.amountOfBlocks)
    THEN Apply(c, [k |-> "frame",
                   f |-> [f EXCEPT !.pc = "incLoop", !.attempts = 0,
                                   !.loc.increaseTimeResult = Undefined]], <<>>)
    ELSE Apply(c, [k |-> "return", val |-> Undefined], <<>>)

\* mine: the head of the evm_increaseTime loop
MineIncreaseTimeLoop(c, f, maxAttempts) ==
    IF LoopCond(f.attempts, maxAttempts)
    THEN LET req == EvmIncreaseTimeRequest(f.loc.id) IN
         Apply(c, [k |-> "frame",
                   f |-> [f EXCEPT !.pc = "await", !.call = "evm_increaseTime", !.req = req]],
               <<Event("send", "mine", "evm_increaseTime", req)>>)
    ELSE Apply(c, [k |-> "frame", f |-> [f EXCEPT !.pc = "mineLoop", !.attempts = 0]],
               <<Event("exhausted", "mine", "evm_increaseTime", Num(f.attempts))>>)

\* (variant: without a result of evm_increaseTime, evm_mine is sent with the
\* identifier after the current one)
MineMineLoopWithoutResult(c, f, maxAttempts) ==
    IF LoopCond(f.attempts, maxAttempts)
    THEN LET req == EvmMineRequest(IF f.loc.increaseTimeResult = Undefined
                                   THEN [id |-> f.loc.id]
                                   ELSE f.loc.increaseTimeResult)
         IN  Apply(c, [k |-> "frame",
                       f |-> [f EXCEPT !.pc = "await", !.call = "evm_mine", !.req = req]],
                   <<Event("send", "mine", "evm_mine", req)>>)
    ELSE Apply(c, [k |-> "frame", f |-> [f EXCEPT !.pc = "for", !.loc.i = @ + 1]],
               <<Event("exhausted", "mine", "evm_mine", Num(f.attempts))>>)

\* mine: the head of the evm_mine loop; reading increaseTimeResult.id fails
\* when the evm_increaseTime loop left no result; after the loop the for
\* loop increments i
MineMineLoop(c, f, maxAttempts) ==
    IF LoopCond(f.attempts, maxAttempts)
    THEN IF f.loc.increaseTimeResult = Undefined
         THEN Apply(c, MineOnError(f,
                         [name |-> "TypeError",
                          message |-> <<"Cannot read properties of undefined (reading 'id')">>]),
                    <<>>)
         ELSE LET req == EvmMineRequest(f.loc.increaseTimeResult) IN
              Apply(c, [k |-> "frame",
                        f |-> [f EXCEPT !.pc = "await", !.call = "evm_mine", !.req = req]],
                    <<Event("send", "mine", "evm_mine", req)>>)
    ELSE Apply(c, [k |-> "frame", f |-> [f EXCEPT !.pc = "for", !.loc.i = @ + 1]],
               <<Event("exhausted", "mine", "evm_mine", Num(f.attempts))>>)

\* the exploration stops a mine invocation that is about to issue one
\* request more than MaxMineSends
MineCut(c, f, maxAttempts) ==
    /\ f.op = "mine" /\ f.pc \in {"incLoop", "mineLoop"}
    /\ LoopCond(f.attempts, maxAttempts)
    /\ ~(f.pc = "mineLoop" /\ f.loc.increaseTimeResult = Undefined)
    /\ Cardinality(Sends(c.log)) >= MaxMineSends

Suspended(c, maxAttempts) ==
    \/ c.stack = <<>>
    \/ /\ c.ret = NoRet
       /\ LET f == c.stack[Len(c.stack)] IN
          f.pc \in {"await", "wait"} \/ MineCut(c, f, maxAttempts)

LocalStep(c, maxAttempts, now) ==
    LET f == c.stack[Len(c.stack)] IN
    IF c.ret # NoRet THEN Apply(c, OnSettled(f, c.ret), <<>>)
    ELSE CASE f.pc = "loop" -> LoopStep(c, f, maxAttempts)
           [] f.pc = "step" /\ CurrentStep(f).k \in {"remote", "tailRemote"} ->
                SendRemote(c, f, now)
           [] f.pc = "step" /\ CurrentStep(f).k \in {"sub", "tail"} -> CallSub(c, f)
           [] f.pc = "for" -> MineFor(c, f)
           [] f.pc = "incLoop" -> MineIncreaseTimeLoop(c, f, maxAttempts)
           [] f.pc = "mineLoop" -> MineMineLoop(c, f, maxAttempts)

RECURSIVE Run(_, _, _)
Run(c, maxAttempts, now) ==
    IF Suspended(c, maxAttempts) THEN c ELSE Run(LocalStep(c, maxAttempts, now), maxAttempts, now)

(***************************************************************************)
(* Actions.                                                                *)
(***************************************************************************)
Config(p) == [stack |-> stack[p], ret |-> NoRet, outcome |-> outcome[p], log |-> log[p]]

Become(p, c) ==
    /\ stack' = [stack EXCEPT ![p] = c.stack]
    /\ outcome' = [outcome EXCEPT ![p] = c.outcome]
    /\ log' = [log EXCEPT ![p] = c.log]

\* a caller calls an operation of the helper: the operation runs up to its
\* first suspension point
Idle(p) == p \in callers /\ outcome[p].state = "idle"

Start(p, op, args, frame) ==
    /\ \E now \in Timestamps :
         Become(p, Run([stack |-> <<frame>>, ret |-> NoRet, outcome |-> [state |-> "pending"],
                        log |-> <<Event("call", "caller", op, args)>>],
                       rskConfig.maxAttempts, now))
    /\ UNCHANGED <<rskConfig, web3Client, node, callers>>

getBalance(p) ==
    /\ Idle(p)
    /\ \E address \in {Sender, Recipient} :
         LET args == [address |-> address] IN
         Start(p, "getBalance", args, NewFrame("getBalance", args))

getGasPrice(p) ==
    /\ Idle(p)
    /\ Start(p, "getGasPrice", <<>>, NewFrame("getGasPrice", <<>>))

getTxReceipt(p) ==
    /\ Idle(p)
    /\ \E txHash \in TxHashes :
         LET args == [txHash |-> txHash] IN
         Start(p, "getTxReceipt", args, NewFrame("getTxReceipt", args))

getBlockNumber(p) ==
    /\ Idle(p)
    /\ Start(p, "getBlockNumber", <<>>, NewFrame("getBlockNumber", <<>>))

newAccountWithSeed(p) ==
    /\ Idle(p)
    /\ \E seed \in Seeds :
         LET args == [seed |-> seed] IN
         Start(p, "newAccountWithSeed", args, NewFrame("newAccountWithSeed", args))

updateBridge(p) ==
    /\ Idle(p)
    /\ Start(p, "updateBridge", <<>>, NewFrame("updateBridge", <<>>))

checkBalanceForCall(p) ==
    /\ Idle(p)
    /\ LET args == [call |-> ContractCall, callerAddress |-> Sender] IN
       Start(p, "checkBalanceForCall", args, NewFrame("checkBalanceForCall", args))

transferFundsCheckingBalance(p) ==
    /\ Idle(p)
    /\ \E v \in Values :
         LET args == SendArgs @@ [value |-> Num(v)] IN
         Start(p, "transferFundsCheckingBalance", args,
               NewFrame("transferFundsCheckingBalance", args))

transferFunds(p) ==
    /\ Idle(p)
    /\ \E v \in {Undefined, Num(1000000000)} :
         LET args == SendArgs @@ [value |-> v, gasPrice |-> BN(1000)] IN
         Start(p, "transferFunds", args, NewFrame("transferFunds", args))

signAndSendTransaction(p) ==
    /\ Idle(p)
    /\ \E v \in {Undefined, Num(1000000000)} :
         LET args == SendArgs @@ [gasPrice |-> BN(1000), gasLimit |-> BN(21000),
                                  callData |-> EncodeABI(ContractCall), value |-> v]
         IN  Start(p, "signAndSendTransaction", args,
                   NewFrame("signAndSendTransaction", args))

signAndSendTransactionCheckingBalance(p) ==
    /\ Idle(p)
    /\ \E inc \in {Undefined, Num(0), Num(50)} :
         LET args == SendArgs @@ [call |-> ContractCall, estimatedGasPercentIncrement |-> inc]
         IN  Start(p, "signAndSendTransactionCheckingBalance", args,
                   NewFrame("signAndSendTransactionCheckingBalance", args))

\* (variant: amountOfBlocks < 0)
InvalidAmountOfBlocksNegativeOnly(amountOfBlocks) == amountOfBlocks < 0

\* amountOfBlocks < 1
InvalidAmountOfBlocks(amountOfBlocks) == amountOfBlocks < 1

\* mine(amountOfBlocks = 1): the argument check, then the loop over the blocks
mine(p) ==
    /\ Idle(p)
    /\ \E n \in {Undefined} \cup {Num(k) : k \in -1..MaxBlocks}, now \in Timestamps :
         LET args == [amountOfBlocks |-> n]
             amountOfBlocks == DefaultParam(n, Num(1))
         IN  IF InvalidAmountOfBlocks(amountOfBlocks.n)
             THEN /\ outcome' = [outcome EXCEPT ![p] =
                         [state |-> "rejected", err |-> InvalidAmountOfBlocksError]]
                  /\ log' = [log EXCEPT ![p] = <<Event("call", "caller", "mine", args)>>]
                  /\ UNCHANGED <<rskConfig, web3Client, node, callers, stack>>
             ELSE Start(p, "mine", args, NewMineFrame(amountOfBlocks.n, now))

\* the node answers the request in flight with a value; a transaction it
\* accepts joins the sender's pending transactions
RespondOk(p) ==
    /\ stack[p] # <<>> /\ Top(p).pc = "await"
    /\ \E v \in NodeValues(Top(p).call, Top(p).req), now \in Timestamps :
         Become(p, Run(Apply(Config(p), OnOk(Top(p), v),
                             <<Event("ok", Top(p).op, Top(p).call, v)>>),
                       rskConfig.maxAttempts, now))
    /\ node' = IF Top(p).call = "eth.sendSignedTransaction"
               THEN [node EXCEPT !.transactionCount = @ + 1]
               ELSE node
    /\ UNCHANGED <<rskConfig, web3Client, callers>>

\* the request in flight fails
RespondError(p, error) ==
    /\ stack[p] # <<>> /\ Top(p).pc = "await"
    /\ \E now \in Timestamps :
         Become(p, Run(Apply(Config(p), OnError(Top(p), error),
                             <<Event("error", Top(p).op, Top(p).call, error)>>),
                       rskConfig.maxAttempts, now))
    /\ UNCHANGED <<rskConfig, web3Client, node, callers>>

\* the timer of `await wait(this.rskConfig.attemptDelay)` fires
Wait(p) ==
    /\ stack[p] # <<>> /\ Top(p).pc = "wait"
    /\ \E now \in Timestamps :
         Become(p, Run(Apply(Config(p), [k |-> "frame", f |-> AfterWait(Top(p))],
                             <<Event("delay", Top(p).op, "wait", Num(rskConfig.attemptDelay))>>),
                       rskConfig.maxAttempts, now))
    /\ UNCHANGED <<rskConfig, web3Client, node, callers>>

Init ==
    /\ rskConfig \in {[DEFAULT_RSK_CONFIG EXCEPT !.maxAttempts = m] : m \in 1..MaxAttemptsBound}
    /\ web3Client = Web3(rskConfig.hostUrl)
    /\ node = [transactionCount |-> InitialTransactionCount]
    /\ callers = {1}
    /\ stack = [p \in Procs |-> <<>>]
    /\ outcome = [p \in Procs |-> [state |-> "idle"]]
    /\ log = [p \in Procs |-> <<>>]

Next ==
    \E p \in Procs :
        \/ getBalance(p)
        \/ getGasPrice(p)
        \/ getTxReceipt(p)
        \/ getBlockNumber(p)
        \/ newAccountWithSeed(p)
        \/ updateBridge(p)
        \/ checkBalanceForCall(p)
        \/ transferFundsCheckingBalance(p)
        \/ transferFunds(p)
        \/ signAndSendTransaction(p)
        \/ signAndSendTransactionCheckingBalance(p)
        \/ mine(p)
        \/ RespondOk(p)
        \/ RespondError(p, ConnectionError)
        \/ RespondError(p, NonConnectionError)
        \/ Wait(p)

Spec == Init /\ [][Next]_vars

(***************************************************************************)
(* The events of a broadcast.  sendSignedTransaction returns an emitter;   *)
(* the helper wraps it in a promise,                                       *)
(*   new Promise((resolve, reject) => emitter                              *)
(*       .once('transactionHash', resolve).once('error', reject))          *)
(* RespondOk and RespondError are the first event of the emitter.  The     *)
(* emitter may emit again afterwards (a transaction hash and then an       *)
(* error, or the reverse); LateEvent is such a second event.               *)
(***************************************************************************)
\* the answered broadcasts of the invocation of p
BroadcastAnswers(p) ==
    {k \in 1..Len(log[p]) : /\ log[p][k].ev \in {"ok", "error"}
                            /\ log[p][k].call = "eth.sendSignedTransaction"}

\* the request that the broadcast answered at k has sent
BroadcastRequest(p, k) ==
    LET sent == {j \in 1..(k - 1) : /\ log[p][j].ev = "send"
                                    /\ log[p][j].call = "eth.sendSignedTransaction"}
    IN  log[p][CHOOSE j \in sent : \A i \in sent : i <= j].data

\* the state of `new Promise(...)` after the first event of its emitter
BroadcastPromise(answer) ==
    IF answer.ev = "ok"
    THEN [state |-> "resolved", val |-> answer.data]
    ELSE [state |-> "rejected", err |-> answer.data]

\* (variant: resolve and reject also act on a settled promise)
SettlePromiseAgain(promise, settlement) ==
    IF promise.state \in {"pending", "resolved", "rejected"} THEN settlement ELSE promise

\* resolve(value) and reject(error): only a pending promise is settled
SettlePromise(promise, settlement) ==
    IF promise.state = "pending" THEN settlement ELSE promise

\* an event reaches the handler registered for it with once(), unless that
\* handler has fired before
OnEmitterEvent(promise, first, event) ==
    IF event.ev = "lateHash"
    THEN IF first.ev = "ok" THEN promise
         ELSE SettlePromise(promise, [state |-> "resolved", val |-> event.data])
    ELSE IF first.ev = "error" THEN promise
         ELSE SettlePromise(promise, [state |-> "rejected", err |-> event.data])

\* the second events the emitter of the broadcast answered at k may emit
LateEvents(p, k) ==
    {Event("lateHash", log[p][k].op, log[p][k].call, TxHash(BroadcastRequest(p, k).serializedTx))}
    \cup {Event("lateError", log[p][k].op, log[p][k].call, e) : e \in NodeErrors}

\* the emitter of an answered broadcast emits a second event.  The promise
\* transferFunds has returned is the promise of its broadcast, so the
\* caller of transferFunds holds whatever state that promise has.
LateEvent(p) ==
    /\ Cardinality({k \in 1..Len(log[p]) : log[p][k].ev \in {"lateHash", "lateError"}})
          < MaxLateEvents
    /\ \E k \in BroadcastAnswers(p) : \E event \in LateEvents(p, k) :
          LET promise == OnEmitterEvent(BroadcastPromise(log[p][k]), log[p][k], event) IN
          /\ log' = [log EXCEPT ![p] = Append(@, event)]
          /\ outcome' = IF log[p][k].op = "transferFunds"
                        THEN [outcome EXCEPT ![p] = promise]
                        ELSE outcome
    /\ UNCHANGED <<rskConfig, web3Client, node, callers, stack>>

\* a transaction of the sender that another client has submitted becomes
\* pending: getTransactionCount(senderAddress, 'pending') counts it
OtherTransaction ==
    /\ node.transactionCount < InitialTransactionCount + MaxOtherTransactions
    /\ node' = [node EXCEPT !.transactionCount = @ + 1]
    /\ UNCHANGED <<rskConfig, web3Client, callers, stack, outcome, log>>

NextEvents ==
    \/ OtherTransaction
    \/ \E p \in Procs :
           \/ transferFunds(p)
           \/ signAndSendTransaction(p)
           \/ RespondOk(p)
           \/ RespondError(p, ConnectionError)
           \/ RespondError(p, NonConnectionError)
           \/ Wait(p)
           \/ LateEvent(p)

InitEvents ==
    /\ rskConfig \in {[DEFAULT_RSK_CONFIG EXCEPT !.maxAttempts = m] : m \in 1..2}
    /\ web3Client = Web3(rskConfig.hostUrl)
    /\ node = [transactionCount |-> InitialTransactionCount]
    /\ callers = {1}
    /\ stack = [p \in Procs |-> <<>>]
    /\ outcome = [p \in Procs |-> [state |-> "idle"]]
    /\ log = [p \in Procs |-> <<>>]

SpecEvents == InitEvents /\ [][NextEvents]_vars

(***************************************************************************)
(* Two callers that read from the node through the same helper, their      *)
(* invocations interleaved at the suspension points.                       *)
(***************************************************************************)
InitReads ==
    /\ rskConfig \in {[DEFAULT_RSK_CONFIG EXCEPT !.maxAttempts = m] : m \in 1..MaxAttemptsBound}
    /\ web3Client = Web3(rskConfig.hostUrl)
    /\ node = [transactionCount |-> InitialTransactionCount]
    /\ callers = Procs
    /\ stack = [p \in Procs |-> <<>>]
    /\ outcome = [p \in Procs |-> [state |-> "idle"]]
    /\ log = [p \in Procs |-> <<>>]

NextReads ==
    \E p \in Procs :
        \/ getBalance(p)
        \/ getTxReceipt(p)
        \/ getBlockNumber(p)
        \/ RespondOk(p)
        \/ RespondError(p, ConnectionError)
        \/ RespondError(p, NonConnectionError)
        \/ Wait(p)

SpecReads == InitReads /\ [][NextReads]_vars

(***************************************************************************)
(* The sender's balance as state of the node, with another actor (2) that  *)
(* spends from the sender's account while the caller (1) uses the helper.  *)
(* The log of the other actor records each spending with the length of the *)
(* caller's log at that time, which orders it among the caller's events.   *)
(***************************************************************************)
OtherActorSpends ==
    /\ Len(log[2]) < MaxSpends
    /\ \E b \in {x \in Balances : x < node.balance} :
         /\ node' = [node EXCEPT !.balance = b]
         /\ log' = [log EXCEPT ![2] =
                       Append(@, Event("spend", "other actor", "eth.sendTransaction",
                                       [balance |-> b, at |-> Len(log[1])]))]
    /\ UNCHANGED <<rskConfig, web3Client, callers, stack, outcome>>

InitRace ==
    /\ rskConfig \in {[DEFAULT_RSK_CONFIG EXCEPT !.maxAttempts = m] : m \in 1..2}
    /\ web3Client = Web3(rskConfig.hostUrl)
    /\ node \in [transactionCount : {InitialTransactionCount},
                 balance : {1234, 21001, 1021000000}]
    /\ callers = {1}
    /\ stack = [p \in Procs |-> <<>>]
    /\ outcome = [p \in Procs |-> [state |-> "idle"]]
    /\ log = [p \in Procs |-> <<>>]

NextRace ==
    \/ OtherActorSpends
    \/ \E p \in Procs :
          \/ transferFundsCheckingBalance(p)
          \/ signAndSendTransactionCheckingBalance(p)
          \/ RespondOk(p)
          \/ RespondError(p, ConnectionError)
          \/ Wait(p)

SpecRace == InitRace /\ [][NextRace]_vars

(***************************************************************************)
(* Two callers that send from the same account through the same helper,    *)
(* their invocations interleaved at the suspension points.                 *)
(***************************************************************************)
InitSenders ==
    /\ rskConfig \in {[DEFAULT_RSK_CONFIG EXCEPT !.maxAttempts = m] : m \in 1..2}
    /\ web3Client = Web3(rskConfig.hostUrl)
    /\ node = [transactionCount |-> InitialTransactionCount]
    /\ callers = Procs
    /\ stack = [p \in Procs |-> <<>>]
    /\ outcome = [p \in Procs |-> [state |-> "idle"]]
    /\ log = [p \in Procs |-> <<>>]

NextSenders ==
    \E p \in Procs :
        \/ transferFunds(p)
        \/ signAndSendTransaction(p)
        \/ RespondOk(p)
        \/ RespondError(p, ConnectionError)
        \/ Wait(p)

SpecSenders == InitSenders /\ [][NextSenders]_vars

(***************************************************************************)
(* Two callers with invocations of their own through the same helper: the  *)
(* first one reads a balance or mines, the second one asks for the block   *)
(* number; the node fails with the connection error or answers.  An       *)
(* invocation of one caller may be over before the other one starts, or    *)
(* overlap with it.                                                        *)
(***************************************************************************)
NextBudgets ==
    \/ getBalance(1)
    \/ mine(1)
    \/ getBlockNumber(2)
    \/ \E p \in Procs :
          \/ RespondOk(p)
          \/ RespondError(p, ConnectionError)
          \/ Wait(p)

SpecBudgets == InitSenders /\ [][NextBudgets]_vars

(***************************************************************************)
(* getClient.  The first caller runs an operation; a second piece of the   *)
(* caller's code (2) asks the helper for its client at any moment, also    *)
(* between the suspension points of the running operation.  Its log keeps  *)
(* each client returned, with the length of the first caller's log then.   *)
(***************************************************************************)
\* (variant: another instance for the same host)
GetClientNew(client) == [client EXCEPT !.instance = @ + 1]

\* return this.web3Client
GetClient(client) == client

getClient(p) ==
    /\ Len(log[p]) < MaxGetClientCalls
    /\ stack[p] = <<>> /\ outcome[p].state = "idle"
    /\ log' = [log EXCEPT ![p] =
                  Append(@, Event("return", "getClient", "settle",
                                  [client |-> GetClient(web3Client), at |-> Len(log[1])]))]
    /\ UNCHANGED <<rskConfig, web3Client, node, callers, stack, outcome>>

NextClient ==
    \/ getClient(2)
    \/ getBalance(1)
    \/ updateBridge(1)
    \/ transferFunds(1)
    \/ \E p \in Procs :
          \/ RespondOk(p)
          \/ RespondError(p, ConnectionError)
          \/ RespondError(p, NonConnectionError)
          \/ Wait(p)

SpecClient == InitEvents /\ [][NextClient]_vars

(***************************************************************************)
(* The constructor.  Here rskConfig is the argument of the constructor, a  *)
(* field that the caller left out being Undefined; strings are sequences   *)
(* of characters, so that startsWith and the concatenation are computed;   *)
(* node.web3Throws tells whether `new Web3(host)` throws; the log records  *)
(* the call of `new Web3(host)`; the outcome is the helper or the error.   *)
(***************************************************************************)
HttpPrefix == <<"h", "t", "t", "p">>
HttpScheme == <<"h", "t", "t", "p", ":", "/", "/">>
LocalHost == <<"l", "o", "c", "a", "l", "h", "o", "s", "t", ":", "4", "4", "4", "4">>

\* DEFAULT_RSK_CONFIG as JavaScript values
DefaultConfigValues ==
    [hostUrl |-> Str(HttpScheme \o LocalHost),
     maxAttempts |-> Num(DEFAULT_RSK_CONFIG.maxAttempts),
     attemptDelay |-> Num(DEFAULT_RSK_CONFIG.attemptDelay)]

\* the values of hostUrl a caller may pass
HostUrls ==
    {Undefined, Null, Num(4444), Str(<<>>),
     Str(LocalHost), Str(HttpScheme \o LocalHost),
     Str(<<"h", "t", "t", "p", "s", ":", "/", "/", "n">>),
     Str(<<"h", "t", "t", "p", "n", "o", "d", "e", ":", "1">>),
     Str(<<"w", "s", ":", "/", "/", "n">>)}

ConstructorArguments ==
    [hostUrl : HostUrls,
     maxAttempts : {Undefined, Num(-1), Num(0), Num(1), Num(3)},
     attemptDelay : {Undefined, Num(500)}]

\* Object.assign({}, DEFAULT_RSK_CONFIG, rskConfig)
ObjectAssign(defaults, config) ==
    [field \in DOMAIN defaults |->
        IF config[field] = Undefined THEN defaults[field] ELSE config[field]]

\* !this.rskConfig.hostUrl || (typeof this.rskConfig.hostUrl !== 'string')
IsInvalidHost(hostUrl) ==
    \/ hostUrl.t # "string"
    \/ hostUrl.s = <<>>

\* host.startsWith('http')
StartsWith(string, prefix) ==
    /\ Len(string) >= Len(prefix)
    /\ SubSeq(string, 1, Len(prefix)) = prefix

\* if(!host.startsWith('http')) host = `http://${host}`
NormalizeHost(host) ==
    IF ~StartsWith(host, HttpPrefix) THEN HttpScheme \o host ELSE host

\* the try block of the constructor
CreateClient(config, web3Throws) ==
    IF config.maxAttempts.n < 1
    THEN [k |-> "throw", called |-> <<>>,
          err |-> RskTransactionHelperException("Error creating Web3 client",
                      Error(<<"Invalid maxAttempts provided. Must be greater than 0.">>))]
    ELSE LET host == NormalizeHost(config.hostUrl.s) IN
         IF web3Throws
         THEN [k |-> "throw", called |-> <<Event("new", "constructor", "Web3", host)>>,
               err |-> RskTransactionHelperException("Error creating Web3 client",
                           Error(<<"Web3 creation error">>))]
         ELSE [k |-> "return", called |-> <<Event("new", "constructor", "Web3", host)>>,
               val |-> [rskConfig |-> config, web3Client |-> Web3(host)]]

\* new RskTransactionHelper(rskConfig)
Constructor(config, web3Throws) ==
    LET merged == ObjectAssign(DefaultConfigValues, config) IN
    IF IsInvalidHost(merged.hostUrl)
    THEN [k |-> "throw", called |-> <<>>, err |-> Error(<<"Invalid host provided">>)]
    ELSE CreateClient(merged, web3Throws)

construct(p) ==
    /\ Idle(p)
    /\ LET r == Constructor(rskConfig, node.web3Throws) IN
       /\ outcome' = [outcome EXCEPT ![p] = Settled(r)]
       /\ log' = [log EXCEPT ![p] = r.called]
       /\ web3Client' = IF r.k = "return" THEN r.val.web3Client ELSE web3Client
    /\ UNCHANGED <<rskConfig, node, callers, stack>>

InitConstructor ==
    /\ rskConfig \in ConstructorArguments
    /\ web3Client = Undefined
    /\ node \in [web3Throws : BOOLEAN]
    /\ callers = {1}
    /\ stack = [p \in Procs |-> <<>>]
    /\ outcome = [p \in Procs |-> [state |-> "idle"]]
    /\ log = [p \in Procs |-> <<>>]

NextConstructor == \E p \in Procs : construct(p)

SpecConstructor == InitConstructor /\ [][NextConstructor]_vars

(***************************************************************************)
(* Properties.                                                             *)
(***************************************************************************)
Invoked(p) == log[p] # <<>>
TopOp(p) == log[p][1].call
TopArgs(p) == log[p][1].data
Done(p) == outcome[p].state \in {"resolved", "rejected"}
Idx(p) == 1..Len(log[p])
EvIdx(p, ev) == {k \in Idx(p) : log[p][k].ev = ev}
SendIdx(p, call) == {k \in Idx(p) : log[p][k].ev = "send" /\ log[p][k].call = call}
ConnErrIdx(p) == {k \in EvIdx(p, "error") : log[p][k].data = ConnectionError}
OtherErrIdx(p) == {k \in EvIdx(p, "error") : log[p][k].data # ConnectionError}
MaxAttempts == rskConfig.maxAttempts

\* the client call of an operation that makes a single remote call
RemoteCallOf(op) ==
    CASE op = "getBalance" -> "eth.getBalance"
      [] op = "getGasPrice" -> "eth.getGasPrice"
      [] op = "getTxReceipt" -> "eth.getTransactionReceipt"
      [] op = "getBlockNumber" -> "eth.getBlockNumber"
      [] op = "newAccountWithSeed" -> "personal_newAccountWithSeed"
      [] op = "updateBridge" -> "fed_updateBridge"

\* every answer of the node so far was the connection error
OnlyConnectionErrors(p) == EvIdx(p, "ok") = {} /\ OtherErrIdx(p) = {}

\* the error at the bottom of a chain of helper-specific errors
RECURSIVE RootCause(_)
RootCause(err) ==
    IF err.name = "RskTransactionHelperError" THEN RootCause(err.internal) ELSE err

\* C1: a single-remote-call operation whose remote call fails with the
\* connection error at every attempt issues the call exactly maxAttempts
\* times: never more, exactly maxAttempts when the operation has ended, and
\* the operation has ended once the maxAttempts-th failure and its delay are
\* over.
C1_ConnectionErrorAttemptedMaxAttemptsTimes ==
    \A p \in Procs :
        (Invoked(p) /\ TopOp(p) \in SingleCallOps /\ OnlyConnectionErrors(p)) =>
            LET n == Cardinality(SendIdx(p, RemoteCallOf(TopOp(p)))) IN
            /\ n <= MaxAttempts
            /\ Cardinality(EvIdx(p, "send")) = n
            /\ Done(p) => n = MaxAttempts
            /\ (/\ Cardinality(ConnErrIdx(p)) = MaxAttempts
                /\ Cardinality(EvIdx(p, "delay")) = MaxAttempts) => Done(p)

C1_Witness ==
    \E p \in Procs :
        /\ Invoked(p) /\ TopOp(p) \in SingleCallOps /\ Done(p)
        /\ MaxAttempts >= 3
        /\ Cardinality(ConnErrIdx(p)) = MaxAttempts
        /\ OnlyConnectionErrors(p)

\* C2: a failure of a remote call whose message lacks the connection-error
\* signature ends the invocation at once: the caller's promise is rejected
\* with that failure (possibly wrapped), nothing follows it in the log but
\* the settlements of the frames it passes through (no delay, no further
\* request), and when no connection error preceded it the failing call was
\* issued once (in mine: once for the block at hand).
C2_NonConnectionErrorNotRetried ==
    \A p \in Procs : \A k \in OtherErrIdx(p) :
        /\ outcome[p].state = "rejected"
        /\ RootCause(outcome[p].err) = log[p][k].data
        /\ \A j \in Idx(p) : j > k => log[p][j].ev = "throw"
        /\ ConnErrIdx(p) = {} =>
              Cardinality(SendIdx(p, log[p][k].call)) =
                  1 + Cardinality({j \in EvIdx(p, "ok") : log[p][j].call = log[p][k].call})

C2_Witness ==
    \E p \in Procs : \E k \in OtherErrIdx(p) :
        /\ MaxAttempts >= 2
        /\ TopOp(p) = "transferFundsCheckingBalance"
        /\ log[p][k].call = "eth.getGasPrice"
        /\ outcome[p].state = "rejected"

\* what a single-remote-call operation returns for the value v of its call
ResultOf(op, v) ==
    CASE op = "getBalance" -> BN(v.n)
      [] op = "getGasPrice" -> IF v.n = 0 THEN BN(1) ELSE BN(v.n)
      [] op \in {"getTxReceipt", "getBlockNumber"} -> v
      [] op \in {"newAccountWithSeed", "updateBridge"} -> v.result

\* C3: a successful attempt ends the retry loop: an answered request is
\* never followed by a delay nor by a repetition of the same request; a
\* single-remote-call operation returns the result of that attempt at once;
\* an operation that has returned from its try block issues nothing more;
\* with a first-attempt success there is exactly one request.
C3_SuccessReturnsImmediately ==
    \A p \in Procs :
        /\ \A k \in EvIdx(p, "ok") :
              /\ k < Len(log[p]) =>
                    /\ log[p][k + 1].ev # "delay"
                    /\ ~(/\ log[p][k + 1].ev = "send"
                         /\ log[p][k + 1].call = log[p][k].call
                         /\ log[p][k + 1].op = log[p][k].op)
              /\ log[p][k].op \in SingleCallOps =>
                    /\ k < Len(log[p])
                    /\ log[p][k + 1] =
                          Event("return", log[p][k].op, "settle",
                                ResultOf(log[p][k].op, log[p][k].data))
        /\ \A k \in EvIdx(p, "return") :
              log[p][k - 1].ev # "exhausted" =>
                  \A j \in Idx(p) : j > k => log[p][j].op # log[p][k].op
        /\ (Invoked(p) /\ TopOp(p) \in SingleCallOps /\ Len(log[p]) >= 3
               /\ log[p][3].ev = "ok") =>
              /\ outcome[p] = [state |-> "resolved",
                               val |-> ResultOf(TopOp(p), log[p][3].data)]
              /\ Cardinality(EvIdx(p, "send")) = 1
              /\ EvIdx(p, "delay") = {}

C3_Witness ==
    \E p \in Procs :
        /\ Invoked(p) /\ TopOp(p) = "getBalance" /\ MaxAttempts = 3
        /\ Len(log[p]) >= 3 /\ log[p][3].ev = "ok"
        /\ outcome[p].state = "resolved"
        /\ Cardinality(EvIdx(p, "send")) = 1

\* C4 (as stated): an invocation in which a retry loop has ended without a
\* result, every attempt having failed with the connection error, ends with
\* a rejected promise.
C4_ExhaustionIsRejected ==
    \A p \in Procs :
        (Done(p) /\ EvIdx(p, "exhausted") # {}) => outcome[p].state = "rejected"

OkIdx(p, call) == {k \in EvIdx(p, "ok") : log[p][k].call = call}
CallIdx(p, op) == {k \in EvIdx(p, "call") : log[p][k].call = op}

\* the network gas price as the helper reports it
Floored(g) == IF g = 0 THEN 1 ELSE g

InsufficientBalance(required, balance) ==
    [state |-> "rejected",
     err |-> [name |-> "Error",
              message |-> <<"Insufficient balance. Required: ", ToString(required),
                            ", current balance: ", ToString(balance)>>]]

\* C5: when transferFundsCheckingBalance has fetched balance B and gas price
\* g and R = value + 21000 x max(g, 1) is greater than B, the invocation is
\* rejected with "Insufficient balance. Required: R, current balance: B",
\* and it has fetched no nonce, broadcast nothing and not called
\* transferFunds.
C5_InsufficientTransferNeverBroadcasts ==
    \A p \in Procs :
        (Invoked(p) /\ TopOp(p) = "transferFundsCheckingBalance") =>
            \A kb \in OkIdx(p, "eth.getBalance"), kg \in OkIdx(p, "eth.getGasPrice") :
                LET B == log[p][kb].data.n
                    R == TopArgs(p).value.n + 21000 * Floored(log[p][kg].data.n)
                IN  R > B =>
                        /\ outcome[p] = InsufficientBalance(R, B)
                        /\ SendIdx(p, "eth.sendSignedTransaction") = {}
                        /\ SendIdx(p, "eth.getTransactionCount") = {}
                        /\ SendIdx(p, "eth.net.getId") = {}
                        /\ CallIdx(p, "transferFunds") = {}

C5_Witness ==
    \E p \in Procs :
        /\ Invoked(p) /\ TopOp(p) = "transferFundsCheckingBalance"
        /\ TopArgs(p).value = Num(1000000000)
        /\ \E kb \in OkIdx(p, "eth.getBalance"), kg \in OkIdx(p, "eth.getGasPrice") :
              log[p][kb].data = Num(1) /\ log[p][kg].data = Num(1000)
        /\ outcome[p] = InsufficientBalance(1021000000, 1)
        /\ SendIdx(p, "eth.sendSignedTransaction") = {}

\* C6 (as stated): transferFundsCheckingBalance fails with the insufficiency
\* error for every fetched balance B <= R, R = value + 21000 x gas price,
\* and calls transferFunds only when B > R.
C6_FailsUnlessBalanceExceedsRequired ==
    \A p \in Procs :
        (Invoked(p) /\ TopOp(p) = "transferFundsCheckingBalance") =>
            \A kb \in OkIdx(p, "eth.getBalance"), kg \in OkIdx(p, "eth.getGasPrice") :
                LET B == log[p][kb].data.n
                    R == TopArgs(p).value.n + 21000 * Floored(log[p][kg].data.n)
                IN  /\ B <= R => outcome[p] = InsufficientBalance(R, B)
                    /\ CallIdx(p, "transferFunds") # {} => B > R

\* C6 (amended): transferFundsCheckingBalance fails with the insufficiency
\* error exactly when the fetched balance B is less than R = value + 21000 x
\* gas price; for every B >= R, B = R included, it calls transferFunds once,
\* with the value and the gas price of the balance check, and does not fail with the
\* insufficiency error.
C6_FailsOnlyBelowRequired ==
    \A p \in Procs :
        (Invoked(p) /\ TopOp(p) = "transferFundsCheckingBalance") =>
            \A kb \in OkIdx(p, "eth.getBalance"), kg \in OkIdx(p, "eth.getGasPrice") :
                LET B == log[p][kb].data.n
                    g == Floored(log[p][kg].data.n)
                    R == TopArgs(p).value.n + 21000 * g
                IN  /\ B < R =>
                          /\ outcome[p] = InsufficientBalance(R, B)
                          /\ CallIdx(p, "transferFunds") = {}
                    /\ B >= R =>
                          /\ outcome[p] # InsufficientBalance(R, B)
                          /\ Cardinality(CallIdx(p, "transferFunds")) = 1
                          /\ \A k \in CallIdx(p, "transferFunds") :
                                /\ log[p][k].data.value = BN(TopArgs(p).value.n)
                                /\ log[p][k].data.gasPrice = BN(g)
                                /\ log[p][k].data.destinationAddress =
                                      TopArgs(p).destinationAddress

C6_Witness ==
    \E p \in Procs :
        /\ Invoked(p) /\ TopOp(p) = "transferFundsCheckingBalance"
        /\ \E kb \in OkIdx(p, "eth.getBalance"), kg \in OkIdx(p, "eth.getGasPrice") :
              log[p][kb].data.n =
                  TopArgs(p).value.n + 21000 * Floored(log[p][kg].data.n)
        /\ CallIdx(p, "transferFunds") # {}
        /\ SendIdx(p, "eth.sendSignedTransaction") # {}

\* the values checkBalanceForCall has fetched before index k of the log
Fetched(p, k, call) == {log[p][j].data.n : j \in {i \in OkIdx(p, call) : i < k}}

\* C7: whenever checkBalanceForCall returns, having fetched the gas estimate
\* e, the network gas price g and the caller's balance b, it returns
\* estimatedGas = e, gasPrice = max(g, 1), callerBalance = b,
\* requiredBalance = e x max(g, 1) and isEnough = (b > requiredBalance).
C7_CheckBalanceForCallResult ==
    \A p \in Procs : \A k \in EvIdx(p, "return") :
        log[p][k].op = "checkBalanceForCall" =>
            /\ Fetched(p, k, "call.estimateGas") # {}
            /\ Fetched(p, k, "eth.getGasPrice") # {}
            /\ Fetched(p, k, "eth.getBalance") # {}
            /\ \A e \in Fetched(p, k, "call.estimateGas"),
                  g \in Fetched(p, k, "eth.getGasPrice"),
                  b \in Fetched(p, k, "eth.getBalance") :
                  log[p][k].data =
                      [t |-> "BalanceForCallResponse",
                       estimatedGas |-> BN(e),
                       requiredBalance |-> BN(e * Floored(g)),
                       callerBalance |-> BN(b),
                       isEnough |-> (b > e * Floored(g)),
                       gasPrice |-> BN(Floored(g))]

C7_Witness ==
    \E p \in Procs :
        /\ Invoked(p) /\ TopOp(p) = "checkBalanceForCall"
        /\ outcome[p].state = "resolved"
        /\ outcome[p].val.callerBalance = outcome[p].val.requiredBalance
        /\ outcome[p].val.isEnough = FALSE

\* the results checkBalanceForCall has handed to the invocation of p
CheckResults(p) ==
    {log[p][k].data : k \in {i \in EvIdx(p, "return") : log[p][i].op = "checkBalanceForCall"}}

\* C8: when checkBalanceForCall has reported isEnough = false to
\* signAndSendTransactionCheckingBalance, the invocation is rejected with
\* "Insufficient balance. Required: <requiredBalance>, current balance:
\* <callerBalance>", signAndSendTransaction has not been called, no nonce
\* has been fetched and nothing broadcast, there has been no delay, and
\* checkBalanceForCall has been called once.
C8_InsufficientCallNotSentNotRetried ==
    \A p \in Procs :
        (Invoked(p) /\ TopOp(p) = "signAndSendTransactionCheckingBalance") =>
            \A r \in CheckResults(p) :
                ~r.isEnough =>
                    /\ outcome[p] = InsufficientBalance(r.requiredBalance.n, r.callerBalance.n)
                    /\ CallIdx(p, "signAndSendTransaction") = {}
                    /\ SendIdx(p, "eth.getTransactionCount") = {}
                    /\ SendIdx(p, "eth.sendSignedTransaction") = {}
                    /\ Cardinality(CallIdx(p, "checkBalanceForCall")) = 1
                    /\ log[p][Len(log[p])].ev = "throw"

C8_Witness ==
    \E p \in Procs :
        /\ Invoked(p) /\ TopOp(p) = "signAndSendTransactionCheckingBalance"
        /\ MaxAttempts = 3
        /\ \E r \in CheckResults(p) : ~r.isEnough /\ r.callerBalance.n < r.requiredBalance.n
        /\ outcome[p].state = "rejected"
        /\ Cardinality(CallIdx(p, "checkBalanceForCall")) = 1

\* the percent increment signAndSendTransactionCheckingBalance was called with
IncrementOf(p) ==
    IF TopArgs(p).estimatedGasPercentIncrement = Undefined
    THEN 10
    ELSE TopArgs(p).estimatedGasPercentIncrement.n

\* C9: when checkBalanceForCall has reported isEnough = true,
\* signAndSendTransactionCheckingBalance has called signAndSendTransaction
\* exactly once, with the gas price of the balance check, the ABI-encoded call and
\* gasLimit = floor(estimatedGas x (100 + increment) / 100), increment 10
\* when none is given; the gas limit is at least the estimate, and 1357 for
\* the estimate 1234 with the default increment.
C9_DelegatesOnceWithIncrementedGasLimit ==
    \A p \in Procs :
        (Invoked(p) /\ TopOp(p) = "signAndSendTransactionCheckingBalance") =>
            \A r \in CheckResults(p) :
                r.isEnough =>
                    /\ Cardinality(CallIdx(p, "signAndSendTransaction")) = 1
                    /\ Cardinality(CallIdx(p, "checkBalanceForCall")) = 1
                    /\ \A k \in CallIdx(p, "signAndSendTransaction") :
                          LET a == log[p][k].data IN
                          /\ a.gasPrice = r.gasPrice
                          /\ a.callData = [t |-> "abi", of |-> TopArgs(p).call]
                          /\ a.gasLimit =
                                BN((r.estimatedGas.n * (100 + IncrementOf(p))) \div 100)
                          /\ a.gasLimit.n >= r.estimatedGas.n
                          /\ (r.estimatedGas.n = 1234 /\ IncrementOf(p) = 10) =>
                                a.gasLimit.n = 1357
                          /\ a.senderAddress = TopArgs(p).senderAddress
                          /\ a.destinationAddress = TopArgs(p).destinationAddress

C9_Witness ==
    \E p \in Procs :
        /\ Invoked(p) /\ TopOp(p) = "signAndSendTransactionCheckingBalance"
        /\ TopArgs(p).estimatedGasPercentIncrement = Undefined
        /\ \E r \in CheckResults(p) : r.isEnough /\ r.estimatedGas.n = 1234
        /\ \E k \in CallIdx(p, "signAndSendTransaction") : log[p][k].data.gasLimit = BN(1357)
        /\ outcome[p].state = "resolved"

\* the requests of the invocation of p, in the order they were issued
Requests(p) == SelectSeq(log[p], LAMBDA e : e.ev = "send")

\* the number of blocks mine was asked for
BlocksOf(p) ==
    IF TopArgs(p).amountOfBlocks = Undefined THEN 1 ELSE TopArgs(p).amountOfBlocks.n

\* C10: in an invocation mine(N), N >= 1 (N = 1 when no argument is given),
\* in which no request has failed, the requests are alternately
\* evm_increaseTime and evm_mine, starting with evm_increaseTime; every
\* evm_increaseTime carries the parameters [60000]; every request carries
\* jsonrpc "2.0"; there are never more than 2 x N requests and, once the
\* invocation has ended, it has resolved and there are exactly 2 x N.
C10_MineIssuesTwoRequestsPerBlock ==
    \A p \in Procs :
        (Invoked(p) /\ TopOp(p) = "mine" /\ BlocksOf(p) >= 1 /\ EvIdx(p, "error") = {}) =>
            LET rs == Requests(p) IN
            /\ \A k \in 1..Len(rs) :
                  /\ rs[k].call = (IF k % 2 = 1 THEN "evm_increaseTime" ELSE "evm_mine")
                  /\ rs[k].data.jsonrpc = "2.0"
                  /\ rs[k].data.method = rs[k].call
                  /\ k % 2 = 1 => rs[k].data.params = <<60000>>
            /\ Len(rs) <= 2 * BlocksOf(p)
            /\ outcome[p].state # "rejected"
            /\ Done(p) => Len(rs) = 2 * BlocksOf(p) /\ outcome[p].val = Undefined
            /\ Len(rs) = 2 * BlocksOf(p) /\ log[p][Len(log[p])].ev # "send" => Done(p)

C10_Witness ==
    \E p \in Procs :
        /\ Invoked(p) /\ TopOp(p) = "mine" /\ BlocksOf(p) = 2
        /\ EvIdx(p, "error") = {}
        /\ outcome[p].state = "resolved"
        /\ Len(Requests(p)) = 4

\* mine() is mine(1)
C10_WitnessNoArgument ==
    \E p \in Procs :
        /\ Invoked(p) /\ TopOp(p) = "mine" /\ TopArgs(p).amountOfBlocks = Undefined
        /\ EvIdx(p, "error") = {}
        /\ outcome[p].state = "resolved"
        /\ Len(Requests(p)) = 2

\* the events of the log of p that concern the remote call `call`, before k
Before(p, k, call) == {j \in Idx(p) : j < k /\ log[p][j].call = call}

Last(S) == CHOOSE j \in S : \A i \in S : i <= j

\* every failure so far was a connection error of evm_mine
OnlyEvmMineConnectionErrors(p) ==
    \A k \in EvIdx(p, "error") :
        log[p][k].data = ConnectionError /\ log[p][k].call = "evm_mine"

\* C11 (as stated): in an invocation mine(N) in which only evm_mine has
\* failed, each time with the connection error and fewer than maxAttempts
\* times in a row (no retry loop ran out), there are never more than N
\* evm_increaseTime requests nor more than N successful evm_mine requests,
\* and once the invocation has ended it has resolved after exactly N
\* evm_increaseTime requests, N successful evm_mine requests and 2 x N plus
\* the number of failures requests in all.
C11_RetriedEvmMineMinesExactlyNBlocks ==
    \A p \in Procs :
        (/\ Invoked(p) /\ TopOp(p) = "mine" /\ BlocksOf(p) >= 1
         /\ OnlyEvmMineConnectionErrors(p)
         /\ EvIdx(p, "exhausted") = {}) =>
            /\ Cardinality(SendIdx(p, "evm_increaseTime")) <= BlocksOf(p)
            /\ Cardinality(OkIdx(p, "evm_mine")) <= BlocksOf(p)
            /\ Done(p) =>
                  /\ outcome[p].state = "resolved"
                  /\ Cardinality(SendIdx(p, "evm_increaseTime")) = BlocksOf(p)
                  /\ Cardinality(OkIdx(p, "evm_mine")) = BlocksOf(p)
                  /\ Cardinality(EvIdx(p, "send")) =
                        2 * BlocksOf(p) + Cardinality(EvIdx(p, "error"))

\* C12 (as stated): in an invocation of mine in which every answer to
\* evm_increaseTime (or every answer to evm_mine) is the connection error,
\* that call is issued at most maxAttempts times, and the invocation has
\* ended once the retry loop of that call has run out.
C12_MineEndsAfterMaxAttempts ==
    \A p \in Procs : \A c \in {"evm_increaseTime", "evm_mine"} :
        (/\ Invoked(p) /\ TopOp(p) = "mine"
         /\ OtherErrIdx(p) = {}
         /\ OkIdx(p, c) = {}) =>
            /\ Cardinality(SendIdx(p, c)) <= MaxAttempts
            /\ (\E k \in EvIdx(p, "exhausted") : log[p][k].call = c) => Done(p)

\* C13: mine(amountOfBlocks) with amountOfBlocks < 1 is rejected with the
\* error "Invalid amountOfBlocks provided. Needs to be greater than 0 if
\* provided." and has issued no request: its log holds the call alone.
C13_InvalidAmountOfBlocksRejectedBeforeAnySend ==
    \A p \in Procs :
        (Invoked(p) /\ TopOp(p) = "mine" /\ BlocksOf(p) < 1) =>
            /\ outcome[p] =
                  [state |-> "rejected",
                   err |-> [name |-> "Error",
                            message |-> <<"Invalid ", "amountOfBlocks",
                                          " provided. Needs to be greater than 0 if provided.">>]]
            /\ EvIdx(p, "send") = {}
            /\ Len(log[p]) = 1

C13_Witness ==
    \E p \in Procs :
        /\ Invoked(p) /\ TopOp(p) = "mine"
        /\ TopArgs(p).amountOfBlocks = Num(0)
        /\ outcome[p].state = "rejected"

C13_WitnessNegative ==
    \E p \in Procs :
        /\ Invoked(p) /\ TopOp(p) = "mine"
        /\ TopArgs(p).amountOfBlocks = Num(-1)
        /\ outcome[p].state = "rejected"

\* C14: in an invocation of mine every request is answered before anything
\* else happens (so at most one request is in flight); the first request is
\* evm_increaseTime; an evm_mine request is issued only when the latest
\* evm_increaseTime request has been answered with a result; an
\* evm_increaseTime request is issued only when the attempts of the latest
\* evm_mine have all been answered (with a result, or the retries ran out),
\* and never right after an answered evm_increaseTime.
C14_MineRequestsAreSequential ==
    \A p \in Procs :
        (Invoked(p) /\ TopOp(p) = "mine") =>
            /\ \A k \in EvIdx(p, "send") :
                  /\ k < Len(log[p]) =>
                        /\ log[p][k + 1].ev \in {"ok", "error"}
                        /\ log[p][k + 1].call = log[p][k].call
                  /\ k = Len(log[p]) => ~Done(p)
            /\ \A k \in SendIdx(p, "evm_mine") :
                  /\ Before(p, k, "evm_increaseTime") # {}
                  /\ log[p][Last(Before(p, k, "evm_increaseTime"))].ev = "ok"
            /\ \A k \in SendIdx(p, "evm_increaseTime") :
                  /\ Before(p, k, "evm_mine") # {} =>
                        log[p][Last(Before(p, k, "evm_mine"))].ev \in {"ok", "exhausted"}
                  /\ Before(p, k, "evm_increaseTime") # {} =>
                        LET j == Last(Before(p, k, "evm_increaseTime")) IN
                        log[p][j].ev = "ok" =>
                            \E i \in SendIdx(p, "evm_mine") : j < i /\ i < k
            /\ \A k \in EvIdx(p, "send") :
                  (\A j \in EvIdx(p, "send") : k <= j) => log[p][k].call = "evm_increaseTime"

C14_Witness ==
    \E p \in Procs :
        /\ Invoked(p) /\ TopOp(p) = "mine" /\ BlocksOf(p) = 2
        /\ Cardinality(SendIdx(p, "evm_increaseTime")) = 2
        /\ Cardinality(OkIdx(p, "evm_mine")) = 1
        /\ ConnErrIdx(p) # {}
        /\ log[p][Len(log[p])].ev = "send"

\* C15 (as stated): every evm_mine request of mine carries the identifier
\* of the evm_increaseTime request before it, plus one.
C15_EvmMineIdFollowsEvmIncreaseTimeId ==
    \A p \in Procs :
        (Invoked(p) /\ TopOp(p) = "mine") =>
            \A k \in SendIdx(p, "evm_mine") :
                \A j \in SendIdx(p, "evm_increaseTime") :
                    (j < k /\ \A i \in SendIdx(p, "evm_increaseTime") : i < k => i <= j) =>
                        log[p][k].data.id = log[p][j].data.id + 1

\* C16: a failure of evm_increaseTime or evm_mine that is not a connection
\* error ends mine at once: the invocation is rejected with that very
\* error and the log ends with the failure and its rejection, so no request
\* follows; when nothing failed before, a failing evm_increaseTime of the
\* first block leaves exactly 1 request and no evm_mine, a failing evm_mine
\* of the first block exactly 2.
C16_NonConnectionErrorAbortsMine ==
    \A p \in Procs :
        (Invoked(p) /\ TopOp(p) = "mine") =>
            \A k \in OtherErrIdx(p) :
                /\ outcome[p] = [state |-> "rejected", err |-> log[p][k].data]
                /\ Len(log[p]) = k + 1
                /\ log[p][k + 1].ev = "throw"
                /\ \A j \in EvIdx(p, "send") : j < k
                /\ (ConnErrIdx(p) = {} /\ EvIdx(p, "ok") = {}) =>
                      /\ log[p][k].call = "evm_increaseTime"
                      /\ Cardinality(EvIdx(p, "send")) = 1
                      /\ SendIdx(p, "evm_mine") = {}
                /\ (ConnErrIdx(p) = {} /\ OkIdx(p, "evm_mine") = {}
                       /\ log[p][k].call = "evm_mine") =>
                      Cardinality(EvIdx(p, "send")) = 2

C16_Witness ==
    \E p \in Procs :
        /\ Invoked(p) /\ TopOp(p) = "mine" /\ BlocksOf(p) = 2 /\ MaxAttempts = 3
        /\ \E k \in OtherErrIdx(p) : log[p][k].call = "evm_mine"
        /\ ConnErrIdx(p) = {} /\ OkIdx(p, "evm_mine") = {}
        /\ outcome[p].state = "rejected"
        /\ Cardinality(EvIdx(p, "send")) = 2

C16_WitnessIncreaseTime ==
    \E p \in Procs :
        /\ Invoked(p) /\ TopOp(p) = "mine" /\ MaxAttempts = 3
        /\ \E k \in OtherErrIdx(p) : log[p][k].call = "evm_increaseTime"
        /\ Cardinality(EvIdx(p, "send")) = 1
        /\ outcome[p].state = "rejected"

\* C17 (as stated): signAndSendTransaction and transferFunds of a helper
\* whose configuration has no chainId are rejected with an error saying
\* "chainId not provided", and issue no request and wait for no retry.
C17_MissingChainIdIsRejected ==
    \A p \in Procs :
        (/\ Invoked(p) /\ TopOp(p) \in {"signAndSendTransaction", "transferFunds"}
         /\ "chainId" \notin DOMAIN rskConfig) =>
            /\ outcome[p].state = "rejected"
            /\ Includes(outcome[p].err.message, "chainId not provided")
            /\ EvIdx(p, "send") = {}
            /\ EvIdx(p, "delay") = {}

\* the connection errors of the broadcast of operation op
BroadcastConnErrIdx(p, op) ==
    {k \in ConnErrIdx(p) : log[p][k].op = op /\ log[p][k].call = "eth.sendSignedTransaction"}

\* the attempts of operation op that a connection error has ended, up to k
FailedAttempts(p, op, k) == Cardinality({j \in ConnErrIdx(p) : j <= k /\ log[p][j].op = op})

\* C18: when the broadcast of signAndSendTransaction fails with the
\* connection error, the operation does not settle but waits attemptDelay;
\* after the delay, if fewer than maxAttempts attempts have failed, it
\* starts another full attempt with a new nonce fetch, otherwise the retry
\* loop has run out; and when a broadcast is answered with a transaction
\* hash the caller's promise is resolved with that hash.
C18_BroadcastConnectionErrorIsRetried ==
    \A p \in Procs :
        /\ \A k \in BroadcastConnErrIdx(p, "signAndSendTransaction") :
              /\ k = Len(log[p]) => ~Done(p)
              /\ k < Len(log[p]) =>
                    log[p][k + 1] = [ev |-> "delay", op |-> "signAndSendTransaction",
                                     call |-> "wait", data |-> Num(rskConfig.attemptDelay)]
              /\ k + 1 < Len(log[p]) =>
                    IF FailedAttempts(p, "signAndSendTransaction", k) < MaxAttempts
                    THEN /\ log[p][k + 2].ev = "send"
                         /\ log[p][k + 2].op = "signAndSendTransaction"
                         /\ log[p][k + 2].call = "eth.getTransactionCount"
                    ELSE log[p][k + 2].ev = "exhausted"
        /\ \A k \in OkIdx(p, "eth.sendSignedTransaction") :
              log[p][k].op = "signAndSendTransaction" =>
                  outcome[p] = [state |-> "resolved", val |-> log[p][k].data]

C18_Witness ==
    \E p \in Procs :
        /\ Invoked(p) /\ TopOp(p) = "signAndSendTransaction"
        /\ Cardinality(BroadcastConnErrIdx(p, "signAndSendTransaction")) = 2
        /\ Cardinality(SendIdx(p, "eth.getTransactionCount")) = 3
        /\ OkIdx(p, "eth.sendSignedTransaction") # {}
        /\ outcome[p].state = "resolved"

\* C19 (as stated): when the broadcast of transferFunds fails with the
\* connection error, transferFunds does not fail: the caller's promise is
\* not rejected by it, and a delay follows.
C19_TransferFundsBroadcastIsRetried ==
    \A p \in Procs :
        \A k \in BroadcastConnErrIdx(p, "transferFunds") :
            /\ outcome[p].state # "rejected"
            /\ k = Len(log[p]) => ~Done(p)
            /\ k < Len(log[p]) => log[p][k + 1].ev = "delay"

\* C20 (as stated): a failure other than a connection error of a remote
\* call of signAndSendTransaction or of transferFunds rejects the caller's
\* promise with a RskTransactionHelperError "Error on <operation>" that
\* wraps the failure, nothing follows it, and when it is the nonce fetch
\* that fails (no connection error before) nothing has been broadcast.
C20_OtherFailuresAreWrapped ==
    \A p \in Procs : \A k \in OtherErrIdx(p) :
        log[p][k].op \in {"signAndSendTransaction", "transferFunds"} =>
            /\ outcome[p].state = "rejected"
            /\ outcome[p].err.name = "RskTransactionHelperError"
            /\ outcome[p].err.message = <<IF log[p][k].op = "transferFunds"
                                          THEN "Error on transferFunds"
                                          ELSE "Error on signAndSendTransaction">>
            /\ RootCause(outcome[p].err) = log[p][k].data
            /\ \A j \in Idx(p) : j > k => log[p][j].ev = "throw"
            /\ (log[p][k].call = "eth.getTransactionCount" /\ ConnErrIdx(p) = {}) =>
                  SendIdx(p, "eth.sendSignedTransaction") = {}

LateIdx(p) == {k \in Idx(p) : log[p][k].ev \in {"lateHash", "lateError"}}

\* the first event of every broadcast decides: a transaction hash resolves
\* the operation with that hash; an error of the broadcast of transferFunds,
\* or an error other than the connection error of the broadcast of
\* signAndSendTransaction, rejects it with that error as the cause
C21_FirstEventDecides ==
    \A p \in Procs : \A k \in BroadcastAnswers(p) :
        /\ log[p][k].ev = "ok" =>
              /\ outcome[p] = [state |-> "resolved", val |-> log[p][k].data]
              /\ \E j \in SendIdx(p, "eth.sendSignedTransaction") :
                    /\ j < k
                    /\ \A i \in SendIdx(p, "eth.sendSignedTransaction") : i < k => i <= j
                    /\ log[p][k].data = [t |-> "txHash", of |-> log[p][j].data.serializedTx]
        /\ (log[p][k].ev = "error"
              /\ (log[p][k].op = "transferFunds" \/ log[p][k].data # ConnectionError)) =>
              /\ outcome[p].state = "rejected"
              /\ RootCause(outcome[p].err) = log[p][k].data

\* an outcome the caller has received is never changed
C21_DeliveredOutcomeIsKept ==
    \A p \in Procs : Done(p) => outcome'[p] = outcome[p]

\* C21: a broadcast of signAndSendTransaction or transferFunds is settled
\* by the first event of its emitter, a transaction hash (the operation
\* resolves with exactly that hash) or an error (the cause of the
\* rejection); a later event of the emitter changes neither, and no step
\* changes an outcome once the caller has it.
C21_BroadcastSettlesExactlyOnce ==
    []C21_FirstEventDecides /\ [][C21_DeliveredOutcomeIsKept]_vars

C21_Witness ==
    \E p \in Procs :
        /\ Invoked(p) /\ TopOp(p) = "transferFunds"
        /\ \E k \in OkIdx(p, "eth.sendSignedTransaction") :
              /\ outcome[p] = [state |-> "resolved", val |-> log[p][k].data]
              /\ \E j \in LateIdx(p) : j > k /\ log[p][j].ev = "lateError"

C21_WitnessHashAfterError ==
    \E p \in Procs :
        /\ Invoked(p) /\ TopOp(p) = "signAndSendTransaction"
        /\ outcome[p].state = "rejected"
        /\ \E j \in LateIdx(p) : log[p][j].ev = "lateHash"

\* C22: every broadcast of signAndSendTransaction and of transferFunds is
\* preceded, after the latest retry delay (so within the same attempt), by
\* an answered fetch of the sender's pending transaction count by the same
\* operation, and the transaction broadcast carries the count of the latest
\* such fetch as its nonce.
C22_NonceIsFetchedForEveryBroadcast ==
    \A p \in Procs : \A k \in SendIdx(p, "eth.sendSignedTransaction") :
        LET fetched == {j \in OkIdx(p, "eth.getTransactionCount") : j < k}
            delays == {j \in EvIdx(p, "delay") : j < k}
        IN  /\ fetched # {}
            /\ delays # {} => Last(delays) < Last(fetched)
            /\ log[p][Last(fetched)].op = log[p][k].op
            /\ log[p][Last({j \in SendIdx(p, "eth.getTransactionCount") : j < Last(fetched)})] =
                  [ev |-> "send", op |-> log[p][k].op, call |-> "eth.getTransactionCount",
                   data |-> [address |-> TopArgs(p).senderAddress, block |-> "pending"]]
            /\ delays # {} =>
                  Last(delays) < Last({j \in SendIdx(p, "eth.getTransactionCount") : j < Last(fetched)})
            /\ log[p][k].data.serializedTx.rawTx.nonce = log[p][Last(fetched)].data.n

\* a retried broadcast whose nonce differs from the nonce of the attempt before
C22_Witness ==
    \E p \in Procs : \E k1, k2 \in SendIdx(p, "eth.sendSignedTransaction") :
        /\ k1 < k2
        /\ log[p][k1].data.serializedTx.rawTx.nonce = 5
        /\ log[p][k2].data.serializedTx.rawTx.nonce = 6

\* the helper-specific error of a failed client creation
IsClientCreationError(o) ==
    /\ o.state = "rejected"
    /\ o.err.name = "RskTransactionHelperError"
    /\ o.err.message = <<"Error creating Web3 client">>

\* C25 (as stated): a construction with hostUrl left out or not a string
\* fails with "Invalid host provided" and does not call the client
\* constructor; with a string hostUrl, a construction with maxAttempts < 1
\* or whose client constructor throws fails with the helper-specific error
\* "Error creating Web3 client"; a failed construction yields no helper.
C25_ConstructionFailures ==
    \A p \in Procs :
        Done(p) =>
            /\ rskConfig.hostUrl.t # "string" =>
                  /\ outcome[p] = [state |-> "rejected",
                                   err |-> [name |-> "Error",
                                            message |-> <<"Invalid host provided">>]]
                  /\ log[p] = <<>>
            /\ (/\ rskConfig.hostUrl.t = "string" /\ rskConfig.hostUrl.s # <<>>
                /\ \/ node.web3Throws
                   \/ rskConfig.maxAttempts # Undefined /\ rskConfig.maxAttempts.n < 1) =>
                  IsClientCreationError(outcome[p])
            /\ outcome[p].state = "rejected" => "val" \notin DOMAIN outcome[p]

\* a scheme prefix: a nonempty name followed by ://
HasScheme(string) ==
    \E i \in 2..Len(string) :
        i + 2 <= Len(string) /\ SubSeq(string, i, i + 2) = <<":", "/", "/">>

WithScheme(string) ==
    IF HasScheme(string) THEN string ELSE <<"h", "t", "t", "p", ":", "/", "/">> \o string

\* C26 (as stated): the host handed to the client is hostUrl with http://
\* prepended exactly when hostUrl has no scheme prefix, and hostUrl
\* unchanged otherwise; normalizing it once more changes nothing.
C26_HostGetsSchemeWhenItHasNone ==
    \A p \in Procs : \A k \in 1..Len(log[p]) :
        (log[p][k].ev = "new" /\ rskConfig.hostUrl # Undefined) =>
            /\ log[p][k].data = WithScheme(rskConfig.hostUrl.s)
            /\ WithScheme(log[p][k].data) = log[p][k].data

\* C23: getGasPrice returns 1 when the network reports a gas price of 0 and
\* the reported value otherwise; the gas price that checkBalanceForCall
\* reports and multiplies, and the one transferFundsCheckingBalance adds to
\* the value and hands to transferFunds, is the value getGasPrice returned
\* and is at least 1.
C23_GasPriceIsAtLeastOne ==
    \A p \in Procs :
        /\ \A k \in EvIdx(p, "return") :
              (log[p][k].op = "getGasPrice" /\ log[p][k - 1].ev = "ok") =>
                  /\ log[p][k - 1].call = "eth.getGasPrice"
                  /\ log[p][k].data =
                        (IF log[p][k - 1].data.n = 0 THEN BN(1) ELSE BN(log[p][k - 1].data.n))
                  /\ log[p][k].data.n >= 1
        /\ \A k \in EvIdx(p, "return") :
              log[p][k].op = "checkBalanceForCall" /\ log[p][k - 1].ev # "exhausted" =>
                  /\ log[p][k].data.gasPrice.n >= 1
                  /\ \E j \in EvIdx(p, "return") :
                        /\ j < k /\ log[p][j].op = "getGasPrice"
                        /\ log[p][j].data = log[p][k].data.gasPrice
                        /\ log[p][k].data.requiredBalance.n =
                              log[p][k].data.estimatedGas.n * log[p][j].data.n
        /\ \A k \in CallIdx(p, "transferFunds") :
              (k > 1 /\ TopOp(p) = "transferFundsCheckingBalance") =>
                  /\ log[p][k].data.gasPrice.n >= 1
                  /\ log[p][k - 1] =
                        Event("return", "getGasPrice", "settle", log[p][k].data.gasPrice)

C23_Witness ==
    \E p \in Procs : \E k \in CallIdx(p, "transferFunds") :
        /\ TopOp(p) = "transferFundsCheckingBalance"
        /\ log[p][k].data.gasPrice = BN(1)
        /\ \E j \in OkIdx(p, "eth.getGasPrice") : j < k /\ log[p][j].data.n = 0
        /\ SendIdx(p, "eth.sendSignedTransaction") # {}

\* the arguments of the invocation of op that is running at index k of the log
ArgsAt(p, k, op) == log[p][Last({j \in CallIdx(p, op) : j < k})].data

\* the value of a transaction whose caller passed v
ValueSent(v) == IF v = Undefined THEN 0 ELSE v.n

\* C24: every transaction that transferFunds broadcasts has gas limit 21000
\* and no payload data; every transaction that transferFunds or
\* signAndSendTransaction broadcasts has value 0 when the caller passed no
\* value, and otherwise the caller's value; the gas price and the
\* destination are the caller's, and signAndSendTransaction also signs the
\* caller's gas limit and call data; the transaction is signed with the
\* caller's key.
C24_TransactionFieldsAreTheCallersOnes ==
    \A p \in Procs : \A k \in SendIdx(p, "eth.sendSignedTransaction") :
        LET op == log[p][k].op
            args == ArgsAt(p, k, op)
            tx == log[p][k].data.serializedTx
        IN  /\ op \in {"transferFunds", "signAndSendTransaction"}
            /\ tx.key = args.senderPrivateKey
            /\ tx.rawTx.value = BN(ValueSent(args.value))
            /\ tx.rawTx.gasPrice = BN(args.gasPrice.n)
            /\ tx.rawTx.to = args.destinationAddress
            /\ op = "transferFunds" =>
                  /\ tx.rawTx.gasLimit = BN(21000)
                  /\ tx.rawTx.data = Undefined
            /\ op = "signAndSendTransaction" =>
                  /\ tx.rawTx.gasLimit = BN(args.gasLimit.n)
                  /\ tx.rawTx.data = args.callData

\* transferFunds without a value, and a transfer whose gas price is not the
\* one of the direct invocations
C24_Witness ==
    \E p \in Procs : \E k \in SendIdx(p, "eth.sendSignedTransaction") :
        /\ TopOp(p) = "transferFunds"
        /\ TopArgs(p).value = Undefined
        /\ log[p][k].data.serializedTx.rawTx.value = BN(0)
        /\ log[p][k].data.serializedTx.rawTx.gasLimit = BN(21000)

C24_WitnessSuppliedValue ==
    \E p \in Procs : \E k \in SendIdx(p, "eth.sendSignedTransaction") :
        /\ TopOp(p) = "transferFundsCheckingBalance"
        /\ log[p][k].data.serializedTx.rawTx.value = BN(1)
        /\ log[p][k].data.serializedTx.rawTx.gasPrice = BN(1)

\* C27: when getTxReceipt, getBlockNumber or getBalance has returned a
\* value, every request of the invocation carried the caller's argument,
\* every answer before the last one was the connection error, the last
\* answer is the only successful one and the value returned is the value of
\* that answer (as a big number for getBalance), from the invocation's own
\* request.
C27_ReadsReturnFirstSuccessfulAttempt ==
    \A p \in Procs :
        (/\ Invoked(p) /\ TopOp(p) \in {"getTxReceipt", "getBlockNumber", "getBalance"}) =>
            /\ \A k \in EvIdx(p, "send") :
                  /\ log[p][k].call = RemoteCallOf(TopOp(p))
                  /\ log[p][k].data =
                        (CASE TopOp(p) = "getBalance" -> [address |-> TopArgs(p).address]
                           [] TopOp(p) = "getTxReceipt" -> [txHash |-> TopArgs(p).txHash]
                           [] OTHER -> <<>>)
            /\ \A k \in EvIdx(p, "ok") :
                  /\ \A j \in EvIdx(p, "ok") \cup EvIdx(p, "error") :
                        j < k => log[p][j].data = ConnectionError
                  /\ \A j \in Idx(p) : j > k => log[p][j].ev = "return"
                  /\ log[p][k - 1].ev = "send"
                  /\ TopOp(p) = "getTxReceipt" =>
                        log[p][k].data.transactionHash = TopArgs(p).txHash
                  /\ outcome[p] =
                        [state |-> "resolved",
                         val |-> IF TopOp(p) = "getBalance"
                                 THEN BN(log[p][k].data.n)
                                 ELSE log[p][k].data]
            /\ (outcome[p].state = "resolved" /\ EvIdx(p, "exhausted") = {}) =>
                  EvIdx(p, "ok") # {}

\* two interleaved invocations with different arguments and different
\* values, one of them after a failed attempt
C27_Witness ==
    /\ Invoked(1) /\ Invoked(2)
    /\ TopOp(1) = "getBalance" /\ TopOp(2) = "getBalance"
    /\ TopArgs(1).address # TopArgs(2).address
    /\ outcome[1].state = "resolved" /\ outcome[2].state = "resolved"
    /\ ConnErrIdx(1) # {} /\ OkIdx(1, "eth.getBalance") # {} /\ OkIdx(2, "eth.getBalance") # {}
    /\ outcome[1].val = BN(1234) /\ outcome[2].val = BN(21000)

C27_WitnessReceipt ==
    /\ Invoked(1) /\ Invoked(2)
    /\ TopOp(1) = "getTxReceipt" /\ TopOp(2) = "getTxReceipt"
    /\ outcome[1].state = "resolved" /\ outcome[2].state = "resolved"
    /\ OkIdx(1, "eth.getTransactionReceipt") # {} /\ OkIdx(2, "eth.getTransactionReceipt") # {}
    /\ outcome[1].val.transactionHash = "0x49ea"
    /\ outcome[2].val.transactionHash = "0x7f3b"

\* C28: when the first attempt of newAccountWithSeed(seed) succeeds, the
\* invocation has issued exactly one send, with method
\* personal_newAccountWithSeed and params [seed], and has returned the
\* result field of the response; likewise updateBridge() with method
\* fed_updateBridge and empty params.
C28_OneSendWithMethodAndParams ==
    \A p \in Procs :
        (/\ Invoked(p) /\ TopOp(p) \in {"newAccountWithSeed", "updateBridge"}
         /\ Len(log[p]) >= 3 /\ log[p][3].ev = "ok") =>
            /\ Cardinality(EvIdx(p, "send")) = 1
            /\ log[p][2].ev = "send"
            /\ log[p][2].data.jsonrpc = "2.0"
            /\ log[p][2].data.method =
                  (IF TopOp(p) = "newAccountWithSeed"
                   THEN "personal_newAccountWithSeed" ELSE "fed_updateBridge")
            /\ log[p][2].data.params =
                  (IF TopOp(p) = "newAccountWithSeed" THEN <<TopArgs(p).seed>> ELSE <<>>)
            /\ outcome[p] = [state |-> "resolved", val |-> log[p][3].data.result]
            /\ EvIdx(p, "delay") = {}

C28_Witness ==
    \E p \in Procs :
        /\ Invoked(p) /\ TopOp(p) = "newAccountWithSeed"
        /\ TopArgs(p).seed = "another seed"
        /\ Len(log[p]) >= 3 /\ log[p][3].ev = "ok"
        /\ log[p][2].data.params = <<"another seed">>
        /\ outcome[p] = [state |-> "resolved", val |-> Str("0xcd2a")]

C28_WitnessUpdateBridge ==
    \E p \in Procs :
        /\ Invoked(p) /\ TopOp(p) = "updateBridge"
        /\ Len(log[p]) >= 3 /\ log[p][3].ev = "ok"
        /\ log[p][2].data.params = <<>>
        /\ outcome[p] = [state |-> "resolved", val |-> Null]

\* C29 (as stated): a delay is waited after a connection failure only if
\* another attempt follows: in an invocation that has ended every delay is
\* followed by a request; an invocation of a single-remote-call operation
\* with f failed attempts has waited f delays when it has got an answer,
\* and maxAttempts - 1 delays (none when maxAttempts = 1) when every attempt
\* has failed with the connection error.
C29_DelaysOnlyBetweenAttempts ==
    \A p \in Procs :
        (Invoked(p) /\ Done(p)) =>
            /\ \A k \in EvIdx(p, "delay") : \E j \in EvIdx(p, "send") : j > k
            /\ (TopOp(p) \in SingleCallOps /\ EvIdx(p, "ok") # {}) =>
                  Cardinality(EvIdx(p, "delay")) = Cardinality(ConnErrIdx(p))
            /\ (TopOp(p) \in SingleCallOps /\ EvIdx(p, "exhausted") # {}) =>
                  Cardinality(EvIdx(p, "delay")) = MaxAttempts - 1

\* the balance that the transaction the caller broadcasts at index k requires
RequiredBalanceAt(k) ==
    LET rawTx == log[1][k].data.serializedTx.rawTx IN
    IF TopOp(1) = "transferFundsCheckingBalance"
    THEN rawTx.value.n + 21000 * rawTx.gasPrice.n
    ELSE CHOOSE r \in {c.requiredBalance.n : c \in CheckResults(1)} : TRUE

\* where the caller's balance check has passed: the call of the sending operation
CheckPassedAt(k) ==
    Last({j \in EvIdx(1, "call") :
            j < k /\ log[1][j].call \in {"transferFunds", "signAndSendTransaction"}})

\* C30: the balance check and the send are not atomic and the balance is
\* not checked again.  Every broadcast of transferFundsCheckingBalance and
\* signAndSendTransactionCheckingBalance comes after a balance check that
\* has passed on the balance the node reported (at least the required
\* balance for a transfer, more than it for a call); from that point on the
\* helper asks for no balance; and once the nonce and the network id have
\* been answered the transaction has been broadcast, whatever another actor
\* has done to the balance meanwhile.  (The witness is a broadcast while the
\* balance is below the required balance.)
C30_BalanceIsNotCheckedAgain ==
    (Invoked(1) /\ TopOp(1) \in {"transferFundsCheckingBalance",
                                 "signAndSendTransactionCheckingBalance"}) =>
        /\ \A k \in SendIdx(1, "eth.sendSignedTransaction") :
              LET fetched == {j \in OkIdx(1, "eth.getBalance") : j < CheckPassedAt(k)} IN
              /\ fetched # {}
              /\ IF TopOp(1) = "transferFundsCheckingBalance"
                 THEN log[1][Last(fetched)].data.n >= RequiredBalanceAt(k)
                 ELSE log[1][Last(fetched)].data.n > RequiredBalanceAt(k)
              /\ \A j \in SendIdx(1, "eth.getBalance") : j < CheckPassedAt(k)
        /\ \A c \in CallIdx(1, "transferFunds") \cup CallIdx(1, "signAndSendTransaction") :
              /\ \A j \in SendIdx(1, "eth.getBalance") : j < c
              /\ \A j \in OkIdx(1, "eth.net.getId") :
                    \E k \in SendIdx(1, "eth.sendSignedTransaction") : k > j

\* the other actor has spent after the balance check has passed and before index k
SpentBelowRequiredBefore(k) ==
    \E s \in Idx(2) :
        /\ log[2][s].data.at >= CheckPassedAt(k)
        /\ log[2][s].data.at < k
        /\ log[2][s].data.balance < RequiredBalanceAt(k)
        /\ \A t \in Idx(2) : t > s => log[2][t].data.at >= k

C30_Witness ==
    /\ Invoked(1) /\ TopOp(1) = "transferFundsCheckingBalance"
    /\ \E k \in SendIdx(1, "eth.sendSignedTransaction") :
          /\ SpentBelowRequiredBefore(k)
          /\ node.balance < RequiredBalanceAt(k)
    /\ outcome[1].state = "resolved"

C30_WitnessCall ==
    /\ Invoked(1) /\ TopOp(1) = "signAndSendTransactionCheckingBalance"
    /\ \E k \in SendIdx(1, "eth.sendSignedTransaction") :
          /\ SpentBelowRequiredBefore(k)
          /\ node.balance < RequiredBalanceAt(k)
    /\ outcome[1].state = "resolved"

\* the invocation of p has fetched the nonce and has not broadcast yet
HoldsNonce(p, n) ==
    /\ stack[p] # <<>>
    /\ Top(p).pc = "await" /\ Top(p).call = "eth.net.getId"
    /\ Top(p).loc.nonce = Num(n)
    /\ SendIdx(p, "eth.sendSignedTransaction") = {}

\* C31: the helper does not serialize concurrent sends.  Each invocation
\* asks the node for the sender's pending count on its own, for the same
\* sender, and broadcasts with the count it was answered, and it broadcasts
\* as soon as its nonce and network id are answered, whatever the other
\* invocation is doing; so two invocations that were answered the same
\* count broadcast transactions with the same nonce.  (The witnesses are the
\* state in which both hold the same nonce before either has broadcast, and
\* the state in which both have broadcast it.)
C31_ConcurrentSendsAreNotSerialized ==
    /\ \A p \in Procs : \A k \in SendIdx(p, "eth.sendSignedTransaction") :
          LET fetched == {j \in OkIdx(p, "eth.getTransactionCount") : j < k} IN
          /\ fetched # {}
          /\ log[p][k].data.serializedTx.rawTx.nonce = log[p][Last(fetched)].data.n
    /\ \A p \in Procs : \A k \in SendIdx(p, "eth.getTransactionCount") :
          log[p][k].data = [address |-> Sender, block |-> "pending"]
    /\ \A p \in Procs : \A j \in OkIdx(p, "eth.net.getId") :
          \E k \in SendIdx(p, "eth.sendSignedTransaction") : k > j
    /\ \A p, q \in Procs :
          \A kp \in SendIdx(p, "eth.sendSignedTransaction"),
             kq \in SendIdx(q, "eth.sendSignedTransaction") :
              LET fp == Last({j \in OkIdx(p, "eth.getTransactionCount") : j < kp})
                  fq == Last({j \in OkIdx(q, "eth.getTransactionCount") : j < kq})
              IN  log[p][fp].data = log[q][fq].data =>
                      log[p][kp].data.serializedTx.rawTx.nonce =
                          log[q][kq].data.serializedTx.rawTx.nonce

\* both invocations have broadcast with the same nonce and both got a hash
C31_Witness ==
    /\ Invoked(1) /\ Invoked(2)
    /\ TopOp(1) = "transferFunds" /\ TopOp(2) = "signAndSendTransaction"
    /\ \E k1 \in OkIdx(1, "eth.sendSignedTransaction"), k2 \in OkIdx(2, "eth.sendSignedTransaction") :
          /\ log[1][k1 - 1].data.serializedTx.rawTx.nonce = InitialTransactionCount
          /\ log[2][k2 - 1].data.serializedTx.rawTx.nonce = InitialTransactionCount
    /\ outcome[1].state = "resolved" /\ outcome[2].state = "resolved"

\* both invocations hold the same nonce and neither has broadcast
C31_WitnessBothFetched ==
    HoldsNonce(1, InitialTransactionCount) /\ HoldsNonce(2, InitialTransactionCount)

\* the connection failures of the retry loop that p is in: those after the
\* latest answer with a value and after the latest loop that gave up
FailuresOfLoop(p) ==
    LET ended == EvIdx(p, "ok") \cup EvIdx(p, "exhausted")
        from == IF ended = {} THEN 0 ELSE Last(ended)
    IN  Cardinality({k \in ConnErrIdx(p) : k > from})

\* C32: every invocation has its own retry budget.  The attempt counter of
\* a running retry loop is the number of connection failures of that loop,
\* in that invocation (the one being waited out not yet counted); an
\* invocation of a single-remote-call operation has issued at most one
\* request more than it has had failures, and gives up only after
\* maxAttempts failures of its own, whatever failures the other invocation
\* has had; a mine loop gives up only with its counter at maxAttempts; and
\* the value an invocation returns is the value of its own answer.
C32_RetryBudgetIsPerInvocation ==
    \A p \in Procs :
        /\ (stack[p] # <<>> /\ Top(p).pc \in {"await", "wait"}) =>
              Top(p).attempts + (IF Top(p).pc = "wait" THEN 1 ELSE 0) = FailuresOfLoop(p)
        /\ (Invoked(p) /\ TopOp(p) \in SingleCallOps) =>
              /\ Cardinality(EvIdx(p, "send")) <= Cardinality(ConnErrIdx(p)) + 1
              /\ Cardinality(EvIdx(p, "send")) <= MaxAttempts
              /\ EvIdx(p, "exhausted") # {} => Cardinality(ConnErrIdx(p)) = MaxAttempts
              /\ (Done(p) /\ EvIdx(p, "exhausted") = {}) => EvIdx(p, "ok") # {}
              /\ \A k \in EvIdx(p, "ok") :
                    /\ log[p][k].call = RemoteCallOf(TopOp(p))
                    /\ outcome[p] = [state |-> "resolved",
                                     val |-> ResultOf(TopOp(p), log[p][k].data)]
        /\ \A k \in EvIdx(p, "exhausted") : log[p][k].data = Num(MaxAttempts)

\* the second caller has used up its attempts while the first one, started
\* before and answered after, succeeds at its last attempt
C32_Witness ==
    /\ MaxAttempts = 2
    /\ Invoked(1) /\ Invoked(2)
    /\ TopOp(1) = "getBalance" /\ TopOp(2) = "getBlockNumber"
    /\ EvIdx(2, "exhausted") # {}
    /\ Cardinality(ConnErrIdx(1)) = 1
    /\ outcome[1] = [state |-> "resolved", val |-> BN(1234)]

\* mine retries evm_increaseTime with its own budget while the other
\* invocation fails
C32_WitnessMine ==
    /\ MaxAttempts = 2
    /\ Invoked(1) /\ Invoked(2)
    /\ TopOp(1) = "mine" /\ TopOp(2) = "getBlockNumber"
    /\ Cardinality(ConnErrIdx(2)) = 2
    /\ Cardinality(ConnErrIdx(1)) = 1
    /\ outcome[1].state = "resolved"

\* C33: no operation of the helper, successful or failing, modifies the
\* configuration or replaces the client: no step changes rskConfig or
\* web3Client, and every getClient call, before, during and after an
\* operation, has returned the client the constructor created.
C33_ClientsReturned ==
    \A k \in Idx(2) :
        /\ log[2][k].data.client = web3Client
        /\ log[2][k].data.client = Web3(rskConfig.hostUrl)
        /\ \A j \in Idx(2) : log[2][j].data.client = log[2][k].data.client

C33_HelperIsKept == rskConfig' = rskConfig /\ web3Client' = web3Client

C33_OperationsLeaveTheHelperAlone == []C33_ClientsReturned /\ [][C33_HelperIsKept]_vars

\* getClient before an operation and after the operation has failed
C33_Witness ==
    /\ Len(log[2]) = 2
    /\ log[2][1].data.at = 0
    /\ Invoked(1) /\ outcome[1].state = "rejected"
    /\ log[2][2].data.at = Len(log[1])
    /\ log[2][1].data.client = log[2][2].data.client

\* getClient between the suspension points of an operation that succeeds
C33_WitnessDuring ==
    /\ Len(log[2]) = 2
    /\ Invoked(1) /\ TopOp(1) = "transferFunds" /\ outcome[1].state = "resolved"
    /\ log[2][1].data.at > 0 /\ log[2][1].data.at < Len(log[1])
    /\ log[2][2].data.at = Len(log[1])

\* the request at k repeats the request at j: the same method, and between
\* them only failures and delays
IsRetryOf(p, j, k) ==
    /\ log[p][j].call = log[p][k].call
    /\ \A i \in (j + 1)..(k - 1) : log[p][i].ev \in {"error", "delay"}

\* C34 (as stated): the request identifiers of one mine invocation are
\* mutually distinct: two requests of which the later is not a repetition
\* of the earlier carry different identifiers, and the identifiers of the
\* evm_increaseTime requests of successive block iterations increase.
C34_MineIdsAreDistinct ==
    \A p \in Procs :
        (Invoked(p) /\ TopOp(p) = "mine") =>
            \A j, k \in EvIdx(p, "send") :
                (j < k /\ ~IsRetryOf(p, j, k)) =>
                    /\ log[p][j].data.id # log[p][k].data.id
                    /\ (log[p][j].call = "evm_increaseTime"
                          /\ log[p][k].call = "evm_increaseTime") =>
                          log[p][j].data.id < log[p][k].data.id

\* the calls of the client that the balance-checking operations make
CheckingRemoteCalls ==
    {"eth.getBalance", "eth.getGasPrice", "call.estimateGas", "eth.getTransactionCount",
     "eth.net.getId", "eth.sendSignedTransaction"}

\* C35: nested retry loops do not multiply attempts.  Within one invocation
\* of transferFundsCheckingBalance, signAndSendTransactionCheckingBalance
\* or checkBalanceForCall every call of the client is issued at most
\* maxAttempts times; when getBalance, getGasPrice or checkBalanceForCall
\* has used up its attempts inside such an invocation, its error is not
\* a connection error for the loop around it: nothing more is requested and
\* the invocation is rejected.
C35_NestedLoopsDoNotMultiplyAttempts ==
    \A p \in Procs :
        (Invoked(p) /\ TopOp(p) \in {"transferFundsCheckingBalance",
                                     "signAndSendTransactionCheckingBalance",
                                     "checkBalanceForCall"}) =>
            /\ \A call \in CheckingRemoteCalls :
                  Cardinality(SendIdx(p, call)) <= MaxAttempts
            /\ \A k \in EvIdx(p, "exhausted") :
                  log[p][k].op \in {"getBalance", "getGasPrice", "checkBalanceForCall"} =>
                      /\ \A j \in EvIdx(p, "send") \cup EvIdx(p, "delay") : j < k
                      /\ outcome[p].state = "rejected"
                      /\ ~IsConnectionError(outcome[p].err)

\* an inner loop retries up to the last attempt and the next one gives up
C35_Witness ==
    \E p \in Procs :
        /\ Invoked(p) /\ TopOp(p) = "transferFundsCheckingBalance"
        /\ MaxAttempts >= 2
        /\ Cardinality(SendIdx(p, "eth.getBalance")) = MaxAttempts
        /\ Cardinality(SendIdx(p, "eth.getGasPrice")) = MaxAttempts
        /\ \E k \in EvIdx(p, "exhausted") : log[p][k].op = "getGasPrice"
        /\ outcome[p].state = "rejected"

C35_WitnessCall ==
    \E p \in Procs :
        /\ Invoked(p) /\ TopOp(p) = "signAndSendTransactionCheckingBalance"
        /\ MaxAttempts >= 2
        /\ Cardinality(SendIdx(p, "call.estimateGas")) = MaxAttempts
        /\ Cardinality(SendIdx(p, "eth.getBalance")) = MaxAttempts
        /\ Cardinality(SendIdx(p, "eth.sendSignedTransaction")) = MaxAttempts
        /\ outcome[p].state = "resolved"

\* the balance check that signAndSendTransactionCheckingBalance has made
\* before the broadcast at index k
CheckBefore(p, k) ==
    log[p][Last({j \in EvIdx(p, "return") :
                    j < k /\ log[p][j].op = "checkBalanceForCall"})].data

\* C36 (as stated): whenever signAndSendTransactionCheckingBalance submits
\* a transaction, the caller balance seen by its balance check is greater
\* than gasLimit x gasPrice of the transaction submitted.
C36_BalanceCoversSubmittedGasLimit ==
    \A p \in Procs : \A k \in SendIdx(p, "eth.sendSignedTransaction") :
        TopOp(p) = "signAndSendTransactionCheckingBalance" =>
            LET rawTx == log[p][k].data.serializedTx.rawTx IN
            CheckBefore(p, k).callerBalance.n > rawTx.gasLimit.n * rawTx.gasPrice.n

\* C37: a broadcast that failed with the connection error counting as not
\* accepted by the node, an invocation of signAndSendTransaction gets at
\* most one transaction accepted: at most one of its broadcasts is answered
\* with a transaction hash, after that answer the invocation requests
\* nothing (no nonce, no broadcast) and waits for nothing, and it returns
\* that hash; every broadcast before it failed with the connection error.
C37_AtMostOneTransactionAccepted ==
    \A p \in Procs :
        (Invoked(p) /\ TopOp(p) \in {"signAndSendTransaction",
                                     "signAndSendTransactionCheckingBalance"}) =>
            /\ Cardinality(OkIdx(p, "eth.sendSignedTransaction")) <= 1
            /\ \A k \in OkIdx(p, "eth.sendSignedTransaction") :
                  /\ \A j \in EvIdx(p, "send") \cup EvIdx(p, "delay") : j < k
                  /\ \A j \in EvIdx(p, "error") :
                        log[p][j].call = "eth.sendSignedTransaction" =>
                            j < k /\ log[p][j].data = ConnectionError
                  /\ outcome[p] = [state |-> "resolved", val |-> log[p][k].data]
                  /\ log[p][k].data = TxHash(BroadcastRequest(p, k).serializedTx)

\* the hash comes at the last of maxAttempts broadcasts
C37_Witness ==
    \E p \in Procs :
        /\ Invoked(p) /\ TopOp(p) = "signAndSendTransaction"
        /\ MaxAttempts = 3
        /\ Cardinality(SendIdx(p, "eth.sendSignedTransaction")) = 3
        /\ Cardinality(OkIdx(p, "eth.sendSignedTransaction")) = 1
        /\ outcome[p].state = "resolved"

\* the hash comes at the first of maxAttempts possible broadcasts
C37_WitnessFirst ==
    \E p \in Procs :
        /\ Invoked(p) /\ TopOp(p) = "signAndSendTransaction"
        /\ MaxAttempts = 3
        /\ Cardinality(SendIdx(p, "eth.sendSignedTransaction")) = 1
        /\ Cardinality(OkIdx(p, "eth.sendSignedTransaction")) = 1
        /\ Cardinality(ConnErrIdx(p)) = 2
        /\ outcome[p].state = "resolved"

\* C38: in mine, every evm_mine request comes after an answered
\* evm_increaseTime of the same block iteration: the latest
\* evm_increaseTime event before it is an answer with a value, and only
\* evm_mine requests, their failures and delays lie between; when
\* evm_increaseTime has failed with the connection error at all
\* maxAttempts attempts, nothing more is sent and mine is rejected.
C38_EvmMineOnlyAfterEvmIncreaseTime ==
    \A p \in Procs :
        (Invoked(p) /\ TopOp(p) = "mine") =>
            /\ \A k \in SendIdx(p, "evm_mine") :
                  LET inc == {j \in Idx(p) : j < k /\ log[p][j].call = "evm_increaseTime"} IN
                  /\ inc # {}
                  /\ log[p][Last(inc)].ev = "ok"
                  /\ \A i \in (Last(inc) + 1)..(k - 1) :
                        \/ log[p][i].call = "evm_mine" /\ log[p][i].ev \in {"send", "error"}
                        \/ log[p][i].ev = "delay"
            /\ \A k \in EvIdx(p, "exhausted") :
                  log[p][k].call = "evm_increaseTime" =>
                      /\ Cardinality({j \in ConnErrIdx(p) : j < k}) >= MaxAttempts
                      /\ \A j \in EvIdx(p, "send") : j < k
                      /\ outcome[p].state = "rejected"

\* evm_increaseTime fails at every attempt of the first block
C38_Witness ==
    \E p \in Procs :
        /\ Invoked(p) /\ TopOp(p) = "mine" /\ MaxAttempts = 2
        /\ Cardinality(SendIdx(p, "evm_increaseTime")) = 2
        /\ Cardinality(ConnErrIdx(p)) = 2
        /\ SendIdx(p, "evm_mine") = {}
        /\ outcome[p].state = "rejected"

\* evm_increaseTime fails at every attempt of the second block
C38_WitnessSecondBlock ==
    \E p \in Procs :
        /\ Invoked(p) /\ TopOp(p) = "mine" /\ MaxAttempts = 2
        /\ Cardinality(SendIdx(p, "evm_mine")) = 1
        /\ Cardinality(OkIdx(p, "evm_mine")) = 1
        /\ \E k \in EvIdx(p, "exhausted") : log[p][k].call = "evm_increaseTime"
        /\ outcome[p].state = "rejected"

====
